---- MODULE Spec2Model ----
(***************************************************************************)
(* Job orchestration of the AI generation studio: JobService (createJob,   *)
(* startJob, pollJobStatus, completeJob, failJob), WebhookService          *)
(* (verifySignature, processWebhook, completeJob, failJob) and the         *)
(* POST /api/webhooks/vendor route, over the users / jobs / sessions       *)
(* tables.                                                                 *)
(*                                                                         *)
(* Granularity: every `await` on a database query or provider call is one  *)
(* step; the code between two awaits runs without interruption (one        *)
(* JavaScript event loop).  db.transaction runs its callback on the same   *)
(* connection with no isolation (MockDatabase.transaction), so the         *)
(* statements of a transaction are separate steps that other tasks may     *)
(* interleave with.  Reads of fields that never change after the insert    *)
(* (job.tool, job.userId, job.creditsUsed) are folded into the step that   *)
(* follows them.                                                           *)
(***************************************************************************)
EXTENDS Integers, Sequences, FiniteSets, TLC

(* ------------------------------ bounds -------------------------------- *)
\* number of createJob calls (each successful call owns the job of its id)
MaxCalls == 2
\* number of webhook deliveries
MaxHooks == 1
\* the balance the user starts with
StartCredits == 5
\* number of createJob calls when they come one after the other
MaxRateCalls == 7
\* polls that may still find the provider job processing (the environment
\* resolves every provider job within this many polls)
MaxPendingPolls == 1
\* last clock value (the clock counts half hours)
MaxTime == 3

(* ------------------------- program constants -------------------------- *)
\* shared/schema toolCosts, mirrored in studio-tabs.tsx
toolCosts == [text2image |-> 1, text2mesh |-> 5, texturing |-> 3, img2video |-> 4]
Tools == DOMAIN toolCosts
\* every tool classified heavy: the variant C23 has to tell from the code
heavyJobsAllTools == {"text2image", "text2mesh", "texturing", "img2video"}
\* JobService.checkRateLimit / createJob: const heavyJobs
heavyJobs == {"text2mesh", "texturing", "img2video"}
\* checkRateLimit: session.heavyJobsThisHour < 5
HeavyLimit == 5
\* checkRateLimit: oneHourAgo = now - 60 * 60 * 1000, in half hours
Hour == 2
\* pollJobStatus: const maxAttempts = 60
maxAttempts == 60
\* GET /api/credits inserts the demo user with credits: 25
LazyCredits == 25
DEMO_USER_ID == "demo-user"
DEMO_SESSION_ID == "demo-session"
WEBHOOK_SECRET == "default-webhook-secret"

Hooks == 1..MaxHooks
Users == {DEMO_USER_ID}
Sessions == {DEMO_SESSION_ID}
\* tools the modelled clients ask for: the light one and a heavy one
RequestedTools == {"text2image", "text2mesh"}
\* a timestamp column that is NULL
Null == -1

VARIABLES
    users,      \* users table: userId -> [exists, credits]
    jobs,       \* jobs table: job id -> row (status "none": no such row)
    sessions,   \* sessions table: sessionId -> [exists, heavyJobsThisHour, lastHeavyJobAt]
    provJobs,   \* SimProvider.jobs: provider job of call c -> status
    calls,      \* one createJob call and the startJob / poll chain it starts
    hooks,      \* webhook deliveries (POST /api/webhooks/vendor)
    now,        \* Date.now(), in half hours
    startCredits, \* history: the balance at the start
    refunds,    \* history: how many times job c's creditsUsed was added back
    deducted    \* history: how many credits call c's deduction removed

vars == <<users, jobs, sessions, provJobs, calls, hooks, now,
          startCredits, refunds, deducted>>

NoJob == [status |-> "none", tool |-> "none", userId |-> "none",
          creditsUsed |-> 0, assetUrls |-> <<>>, meta |-> "null",
          error |-> "", providerJobId |-> 0]

IdleCall == [pc |-> "idle", userId |-> "none", tool |-> "none",
             route |-> "none", prompt |-> "none", amount |-> 0,
             at |-> 0, credRead |-> 0,
             provider |-> "none", configured |-> "none", returned |-> "none",
             attempts |-> 0, err |-> "", result |-> "pending"]

IdleHook == [pc |-> "idle", job |-> 0, status |-> "none", assetUrls |-> <<>>,
             err |-> "", credRead |-> 0, response |-> 0, authentic |-> FALSE,
             onTerminal |-> FALSE]

Terminal == {"completed", "failed"}

\* the tables other than users at start-up, n createJob calls still to come
InitTables(n) ==
    /\ jobs = [c \in 1..n |-> NoJob]
    /\ sessions = [s \in Sessions |->
                     [exists |-> FALSE, heavyJobsThisHour |-> 0, lastHeavyJobAt |-> Null]]
    /\ provJobs = [c \in 1..n |-> "none"]
    /\ calls = [c \in 1..n |-> IdleCall]
    /\ hooks = [w \in Hooks |-> IdleHook]
    /\ now = 0
    /\ refunds = [c \in 1..n |-> 0]
    /\ deducted = [c \in 1..n |-> 0]

\* the state after start-up and the first GET /api/credits: a balance b
InitWith(n, balances) ==
    /\ \E b \in balances :
          /\ users = [u \in Users |-> [exists |-> TRUE, credits |-> b]]
          /\ startCredits = b
    /\ InitTables(n)

Init == InitWith(MaxCalls, {StartCredits})

(* ----------------------------- createJob ------------------------------ *)

\* checkCredits without the comparison against the cost (user && user.credits):
\* the variant C9 has to tell from the code
checkCreditsAnyBalance(userId, tool) ==
    users[userId].exists /\ users[userId].credits > 0

\* JobService.checkCredits: user && user.credits >= cost
checkCredits(userId, tool) ==
    users[userId].exists /\ users[userId].credits >= toolCosts[tool]

\* createJob({ tool, prompt, userId, .. }) up to its first throw: validate
\* the tool, then checkCredits(userId, tool)
createJobFor(c, userId, tool, route, prompt) ==
    /\ calls[c].pc = "idle"
    /\ \A d \in DOMAIN calls : d < c => calls[d].pc # "idle"
    /\ tool \in Tools
    /\ LET call == [calls[c] EXCEPT !.userId = userId, !.tool = tool, !.route = route,
                                    !.prompt = prompt, !.at = now] IN
       IF checkCredits(userId, tool)
          THEN calls' = [calls EXCEPT ![c] = [call EXCEPT !.pc = "rateLimit"]]
          ELSE calls' = [calls EXCEPT ![c] = [call EXCEPT !.pc = "returned",
                                                 !.result = "InsufficientCredits"]]
    /\ UNCHANGED <<users, jobs, sessions, provJobs, hooks, now,
                   startCredits, refunds, deducted>>

\* createJob called by a route with the prompt of its request: the routes
\* pass userId: DEMO_USER_ID
createJobFrom(c, tool, route, prompt) ==
    createJobFor(c, DEMO_USER_ID, tool, route, prompt)

\* POST /api/jobs with a valid tool and a prompt, up to createJob's first throw
CreateJobCheckCredits(c, tool) == createJobFrom(c, tool, "/api/jobs", "a prompt")

\* a session row as checkRateLimit sees it after its select-or-insert
sessionRow(sessionId) ==
    IF sessions[sessionId].exists
       THEN sessions[sessionId]
       ELSE [exists |-> TRUE, heavyJobsThisHour |-> 0, lastHeavyJobAt |-> Null]

\* checkRateLimit: !session.lastHeavyJobAt || session.lastHeavyJobAt < oneHourAgo
windowExpired(row, t) ==
    row.lastHeavyJobAt = Null \/ row.lastHeavyJobAt < t - Hour

\* the ceiling test off by one (<= 5): the variant C8 has to tell from the code
underLimitInclusive(row) == row.heavyJobsThisHour <= HeavyLimit

\* checkRateLimit: return session.heavyJobsThisHour < 5
underLimit(row) == row.heavyJobsThisHour < HeavyLimit

\* createJob with the deduction made before the rate-limit check, so that a
\* refused call has already paid: the variant C21 has to tell from the code
CheckRateLimitAfterDeduct(c) ==
    /\ calls[c].pc = "rateLimit"
    /\ IF calls[c].tool \notin heavyJobs
          THEN /\ calls' = [calls EXCEPT ![c].pc = "deductRead"]
               /\ UNCHANGED <<sessions, users, deducted>>
          ELSE LET row == sessionRow(DEMO_SESSION_ID)
                   refused == ~windowExpired(row, now) /\ ~underLimit(row) IN
               /\ sessions' = [sessions EXCEPT ![DEMO_SESSION_ID] = row]
               /\ users' = IF refused
                              THEN [users EXCEPT ![calls[c].userId].credits =
                                                    @ - toolCosts[calls[c].tool]]
                              ELSE users
               /\ deducted' = IF refused
                                 THEN [deducted EXCEPT ![c] = toolCosts[calls[c].tool]]
                                 ELSE deducted
               /\ calls' = [calls EXCEPT
                     ![c].pc = IF windowExpired(row, now) THEN "rateReset"
                               ELSE IF underLimit(row) THEN "deductRead"
                               ELSE "returned",
                     ![c].result = IF refused THEN "RateLimitExceeded" ELSE @]
    /\ UNCHANGED <<jobs, provJobs, hooks, now, startCredits, refunds>>

\* checkRateLimit up to its decision: light tools pass; a heavy tool selects
\* (or inserts) the session row, then either resets the window (one more
\* query) or answers from the row it read
CheckRateLimit(c) ==
    /\ calls[c].pc = "rateLimit"
    /\ IF calls[c].tool \notin heavyJobs
          THEN /\ calls' = [calls EXCEPT ![c].pc = "deductRead"]
               /\ UNCHANGED sessions
          ELSE LET row == sessionRow(DEMO_SESSION_ID) IN
               /\ sessions' = [sessions EXCEPT ![DEMO_SESSION_ID] = row]
               /\ calls' = [calls EXCEPT
                     ![c].pc = IF windowExpired(row, now) THEN "rateReset"
                               ELSE IF underLimit(row) THEN "deductRead"
                               ELSE "returned",
                     ![c].result = IF ~windowExpired(row, now) /\ ~underLimit(row)
                                   THEN "RateLimitExceeded" ELSE @]
    /\ UNCHANGED <<users, jobs, provJobs, hooks, now, startCredits, refunds, deducted>>

\* checkRateLimit: the reset update, then return true
RateLimitReset(c) ==
    /\ calls[c].pc = "rateReset"
    /\ sessions' = [sessions EXCEPT ![DEMO_SESSION_ID].heavyJobsThisHour = 0,
                                    ![DEMO_SESSION_ID].lastHeavyJobAt = now]
    /\ calls' = [calls EXCEPT ![c].pc = "deductRead"]
    /\ UNCHANGED <<users, jobs, provJobs, hooks, now, startCredits, refunds, deducted>>

\* the deduction's re-check: !user || user.credits < cost
recheckFails(userId, cost) ==
    ~users[userId].exists \/ users[userId].credits < cost

\* first statement of the deduct transaction: select the user, re-check
DeductRead(c) ==
    /\ calls[c].pc = "deductRead"
    /\ IF recheckFails(calls[c].userId, toolCosts[calls[c].tool])
          THEN calls' = [calls EXCEPT ![c].pc = "returned",
                                      ![c].result = "InsufficientCredits"]
          ELSE calls' = [calls EXCEPT ![c].pc = "deductWrite",
                                      ![c].credRead = users[calls[c].userId].credits]
    /\ UNCHANGED <<users, jobs, sessions, provJobs, hooks, now,
                   startCredits, refunds, deducted>>

\* a deduction taken from the balance at start-up instead of the row read,
\* so that a second call's deduction repeats the first's: the variant C16
\* has to tell from the code
DeductWriteFromStart(c) ==
    /\ calls[c].pc = "deductWrite"
    /\ users' = [users EXCEPT ![calls[c].userId].credits =
                                 startCredits - toolCosts[calls[c].tool]]
    /\ deducted' = [deducted EXCEPT ![c] = toolCosts[calls[c].tool]]
    /\ calls' = [calls EXCEPT ![c].pc = "insertJob", ![c].credRead = 0]
    /\ UNCHANGED <<jobs, sessions, provJobs, hooks, now, startCredits, refunds>>

\* second statement: set credits = user.credits - cost, from the row read
DeductWrite(c) ==
    /\ calls[c].pc = "deductWrite"
    /\ users' = [users EXCEPT ![calls[c].userId].credits =
                                 calls[c].credRead - toolCosts[calls[c].tool]]
    /\ deducted' = [deducted EXCEPT ![c] = toolCosts[calls[c].tool]]
    /\ calls' = [calls EXCEPT ![c].pc = "insertJob", ![c].credRead = 0]
    /\ UNCHANGED <<jobs, sessions, provJobs, hooks, now, startCredits, refunds>>

\* the row createJob inserts
newJob(tool, userId) ==
    [status |-> "queued", tool |-> tool, userId |-> userId,
     creditsUsed |-> toolCosts[tool], assetUrls |-> <<>>, meta |-> "null",
     error |-> "", providerJobId |-> 0]

\* second transaction: insert the job row.  A light tool's createJob then
\* calls startJob (whose select is issued at once) and returns the job.
InsertJob(c) ==
    /\ calls[c].pc = "insertJob"
    /\ jobs' = [jobs EXCEPT ![c] = newJob(calls[c].tool, calls[c].userId)]
    /\ IF calls[c].tool \in heavyJobs
          THEN calls' = [calls EXCEPT ![c].pc = "sessionInc"]
          ELSE calls' = [calls EXCEPT ![c].pc = "markProcessing", ![c].result = "ok"]
    /\ UNCHANGED <<users, sessions, provJobs, hooks, now, startCredits, refunds, deducted>>

\* second transaction rejects (the database refuses the insert): createJob
\* throws after the first transaction has committed the deduction
InsertJobFails(c) ==
    /\ calls[c].pc = "insertJob"
    /\ calls' = [calls EXCEPT ![c].pc = "returned", ![c].result = "error"]
    /\ UNCHANGED <<users, jobs, sessions, provJobs, hooks, now,
                   startCredits, refunds, deducted>>

\* heavy tools: heavyJobsThisHour = heavyJobsThisHour + 1, lastHeavyJobAt = now;
\* then startJob is called and the job returned
SessionIncrement(c) ==
    /\ calls[c].pc = "sessionInc"
    /\ sessions' = [sessions EXCEPT
          ![DEMO_SESSION_ID].heavyJobsThisHour = @ + 1,
          ![DEMO_SESSION_ID].lastHeavyJobAt = now]
    /\ calls' = [calls EXCEPT ![c].pc = "markProcessing", ![c].result = "ok"]
    /\ UNCHANGED <<users, jobs, provJobs, hooks, now, startCredits, refunds, deducted>>

\* ids of the jobs table (uuid) and the ids providers issue ("sim_...",
\* "meshy_...", "replicate_..."): two name spaces that never meet
JobIds == DOMAIN calls
generateJobId(c) == 100 + c
ProviderJobIds == {generateJobId(c) : c \in DOMAIN calls}

(* ------------------------- startJob and poller ------------------------ *)

\* startJob: update jobs set status = "processing" where id = jobId
MarkProcessing(c) ==
    /\ calls[c].pc = "markProcessing"
    /\ jobs' = [jobs EXCEPT ![c].status = "processing"]
    /\ calls' = [calls EXCEPT ![c].pc = "submit"]
    /\ UNCHANGED <<users, sessions, provJobs, hooks, now, startCredits, refunds, deducted>>

\* process.env as the provider factory reads it: the provider named for each
\* tool and the vendor credentials ("" when unset)
Envs ==
    [text2image : {"FLUX", "SIM"}, text2mesh : {"SIM", "MESHY", "REPLICATE"},
     texturing : {"SIM", "MESHY"}, img2video : {"SIM", "REPLICATE"},
     MESHY_API_KEY : {"", "meshy-key"}, REPLICATE_API_TOKEN : {"", "replicate-token"}]

\* getProviderConfig with nothing set in the environment
DefaultEnv ==
    [text2image |-> "FLUX", text2mesh |-> "SIM", texturing |-> "SIM",
     img2video |-> "SIM", MESHY_API_KEY |-> "", REPLICATE_API_TOKEN |-> ""]

\* new MeshyProvider(apiKey) / new ReplicateProvider(apiToken) throws
MeshyProviderThrows(apiKey) == apiKey = ""
ReplicateProviderThrows(apiToken) == apiToken = ""

\* the provider the factory functions return, by kind
createTextToImageProvider(env) == "SIM"

\* a factory that builds the configured vendor's adapter whether or not the
\* credential is set: the variant C20 has to tell from the code
createTextTo3DProviderNoFallback(env) ==
    IF env.text2mesh \in {"MESHY", "REPLICATE"} THEN env.text2mesh ELSE "SIM"

createTextTo3DProvider(env) ==
    IF env.text2mesh = "MESHY"
       THEN IF env.MESHY_API_KEY = "" THEN "SIM"
            ELSE IF MeshyProviderThrows(env.MESHY_API_KEY) THEN "SIM" ELSE "MESHY"
    ELSE IF env.text2mesh = "REPLICATE"
       THEN IF env.REPLICATE_API_TOKEN = "" THEN "SIM"
            ELSE IF ReplicateProviderThrows(env.REPLICATE_API_TOKEN) THEN "SIM"
            ELSE "REPLICATE"
    ELSE "SIM"

createTexturingProvider(env) == "SIM"

createImageToVideoProvider(env) == "SIM"

\* JobService.routeToProvider / getProvider: the factory function of the tool
getProvider(tool, env) ==
    CASE tool = "text2image" -> createTextToImageProvider(env)
      [] tool = "text2mesh" -> createTextTo3DProvider(env)
      [] tool = "texturing" -> createTexturingProvider(env)
      [] tool = "img2video" -> createImageToVideoProvider(env)

\* routeToProvider under an environment: the simulation provider stores the
\* job in its map (one instance per process) and returns it processing; a
\* vendor adapter returns it processing, or failed when its create call failed
SubmitIn(c, env, returned) ==
    /\ calls[c].pc = "submit"
    /\ returned \in {"processing", "failed"}
    /\ getProvider(calls[c].tool, env) = "SIM" => returned = "processing"
    /\ provJobs' = [provJobs EXCEPT ![c] = returned]
    /\ calls' = [calls EXCEPT ![c].pc = "storeProviderJobId",
                              ![c].provider = getProvider(calls[c].tool, env),
                              ![c].configured = env[calls[c].tool],
                              ![c].returned = returned]
    /\ UNCHANGED <<users, jobs, sessions, hooks, now, startCredits, refunds, deducted>>

\* routeToProvider with nothing configured: the simulation provider
Submit(c) == SubmitIn(c, DefaultEnv, "processing")

\* startJob with a catch that only logs: the variant C11 has to tell from
\* the code
MarkProcessingDropped(c) ==
    /\ calls[c].pc = "markProcessing"
    /\ calls' = [calls EXCEPT ![c].pc = "finished", ![c].err = "Database unavailable"]
    /\ UNCHANGED <<users, jobs, sessions, provJobs, hooks, now,
                   startCredits, refunds, deducted>>

\* an exception before the job is marked processing (the select or the
\* update rejects): startJob's catch calls failJob(jobId, message)
MarkProcessingThrows(c) ==
    /\ calls[c].pc = "markProcessing"
    /\ calls' = [calls EXCEPT ![c].pc = "failReadUser", ![c].err = "Database unavailable"]
    /\ UNCHANGED <<users, jobs, sessions, provJobs, hooks, now,
                   startCredits, refunds, deducted>>

\* the provider call rejects: startJob's catch calls failJob(jobId, message)
SubmitThrows(c) ==
    /\ calls[c].pc = "submit"
    /\ calls' = [calls EXCEPT ![c].pc = "failReadUser", ![c].err = "Provider unavailable"]
    /\ UNCHANGED <<users, jobs, sessions, provJobs, hooks, now,
                   startCredits, refunds, deducted>>

\* the update that stores the provider job id rejects: the provider job
\* runs on, no poller is started, startJob's catch calls failJob
StoreProviderJobIdThrows(c) ==
    /\ calls[c].pc = "storeProviderJobId"
    /\ calls' = [calls EXCEPT ![c].pc = "failReadUser", ![c].err = "Database unavailable"]
    /\ UNCHANGED <<users, jobs, sessions, provJobs, hooks, now,
                   startCredits, refunds, deducted>>

\* a dispatch that writes status processing together with the provider job
\* id, after the provider has the job: the variant C19 has to tell from the
\* code
StoreProviderJobIdAndStatus(c) ==
    /\ calls[c].pc = "storeProviderJobId"
    /\ jobs' = [jobs EXCEPT ![c].providerJobId = generateJobId(c),
                            ![c].status = "processing"]
    /\ calls' = [calls EXCEPT ![c].pc = "pollTimer", ![c].attempts = 0]
    /\ UNCHANGED <<users, sessions, provJobs, hooks, now, startCredits, refunds, deducted>>

\* a startJob that starts the poller whatever the status of the provider
\* job: the variant C28 has to tell from the code
StoreProviderJobIdAlwaysPolls(c) ==
    /\ calls[c].pc = "storeProviderJobId"
    /\ jobs' = [jobs EXCEPT ![c].providerJobId = generateJobId(c)]
    /\ calls' = [calls EXCEPT ![c].pc = "pollTimer", ![c].attempts = 0]
    /\ UNCHANGED <<users, sessions, provJobs, hooks, now, startCredits, refunds, deducted>>

\* startJob: update jobs set providerJobId, then read providerJob.status (the
\* object the provider returned and keeps in its map, so a timer that fired
\* during the update shows): "completed" goes to completeJob, anything else
\* has pollJobStatus arm its first timer
StoreProviderJobId(c) ==
    /\ calls[c].pc = "storeProviderJobId"
    /\ jobs' = [jobs EXCEPT ![c].providerJobId = generateJobId(c)]
    /\ calls' = [calls EXCEPT ![c].pc = IF provJobs[c] = "completed"
                                        THEN "completeWrite" ELSE "pollTimer",
                              ![c].attempts = 0]
    /\ UNCHANGED <<users, sessions, provJobs, hooks, now, startCredits, refunds, deducted>>

\* the simulation provider's timer: the provider job completes
ProviderCompletes(c) ==
    /\ provJobs[c] = "processing"
    /\ provJobs' = [provJobs EXCEPT ![c] = "completed"]
    /\ UNCHANGED <<users, jobs, sessions, calls, hooks, now, startCredits, refunds, deducted>>

\* the simulation provider's timer: generation failed
ProviderFails(c) ==
    /\ provJobs[c] = "processing"
    /\ provJobs' = [provJobs EXCEPT ![c] = "failed"]
    /\ UNCHANGED <<users, jobs, sessions, calls, hooks, now, startCredits, refunds, deducted>>

\* poll without the timeout failure (at the ceiling it only stops): the
\* variant C12 has to tell from the code
pollBranchNoTimeout(status, attempts) ==
    IF status = "completed" THEN "completeWrite"
    ELSE IF status = "failed" THEN "failReadUser"
    ELSE IF attempts < maxAttempts THEN "pollTimer"
    ELSE "finished"

\* poll with the ceiling test one too far: the variant C13 has to tell
\* from the code
pollBranchOneMore(status, attempts) ==
    IF status = "completed" THEN "completeWrite"
    ELSE IF status = "failed" THEN "failReadUser"
    ELSE IF attempts <= maxAttempts THEN "pollTimer"
    ELSE "failReadUser"

\* what poll does with the status getJobStatus returned
pollBranch(status, attempts) ==
    IF status = "completed" THEN "completeWrite"
    ELSE IF status = "failed" THEN "failReadUser"
    ELSE IF attempts < maxAttempts THEN "pollTimer"
    ELSE "failReadUser"

\* the error message poll passes to failJob
pollError(status) ==
    IF status = "failed" THEN "Provider job failed" ELSE "Job timed out"

\* getJobStatus finds the provider job: the simulation provider is one
\* instance, a vendor adapter is built anew by getProvider, its map empty
statusFound(provider) == provider = "SIM"

\* the ids in the jobs map of the provider instance the poller is handed:
\* the simulation provider keeps every job it created, a vendor adapter is
\* new and has created none
instanceJobs(provider) ==
    IF provider = "SIM"
    THEN {generateJobId(c) : c \in {d \in DOMAIN calls :
                                 provJobs[d] # "none" /\ calls[d].provider = "SIM"}}
    ELSE {}

JobNotFound == "Job not found"

\* a getJobStatus that answers an id it does not know with a fresh queued
\* ProviderJob: the variant C26 has to tell from the code
getJobStatusDefault(provider, jobId) ==
    IF jobId \notin instanceJobs(provider) THEN "queued"
    ELSE provJobs[jobId - 100]

\* getJobStatus (SimProvider, MeshyProvider, ReplicateProvider): jobs.get,
\* throw "Job <id> not found" when the map has no such id, else the job
getJobStatus(provider, jobId) ==
    IF jobId \notin instanceJobs(provider) THEN JobNotFound
    ELSE provJobs[jobId - 100]

\* one poll: attempts++, select the job, getJobStatus, branch; getJobStatus
\* throwing is caught and passed to failJob as "Polling error"
pollOnce(c) ==
    /\ calls[c].pc = "pollTimer"
    /\ LET n == calls[c].attempts + 1
           status == getJobStatus(calls[c].provider, jobs[c].providerJobId)
           next == IF status # JobNotFound
                   THEN pollBranch(status, n) ELSE "failReadUser" IN
       calls' = [calls EXCEPT ![c].attempts = n, ![c].pc = next,
                    ![c].err = IF next # "failReadUser" THEN @
                               ELSE IF status # JobNotFound
                               THEN pollError(status) ELSE "Polling error"]
    /\ UNCHANGED <<users, jobs, sessions, provJobs, hooks, now,
                   startCredits, refunds, deducted>>

\* a poll, in runs where the provider settles every job within
\* MaxPendingPolls polls
Poll(c) ==
    /\ provJobs[c] = "processing" => calls[c].attempts < MaxPendingPolls
    /\ pollOnce(c)

\* completeJob (both services): status, assetUrls and meta are overwritten
completedRow(row, assetUrls, meta) ==
    [row EXCEPT !.status = "completed", !.assetUrls = assetUrls,
                !.meta = meta, !.error = ""]

\* a failJob whose job update writes the error and leaves the status: the
\* variant C32 has to tell from the code
failedRowKeepsStatus(row, error) ==
    [row EXCEPT !.meta = "error", !.error = error]

\* failJob's job update (both services): status and meta = { error }
failedRow(row, error) ==
    [row EXCEPT !.status = "failed", !.meta = "error", !.error = error]

\* a refund that looks the tool's cost up again instead of reading the job
\* row: the variant C15 has to tell from the code
refundedCreditsFromTable(credRead, row) == credRead + toolCosts[row.tool]

\* failJob's refund: credits = user.credits + job.creditsUsed, from the row read
refundedCredits(credRead, row) == credRead + row.creditsUsed

\* the result the simulation provider's timer leaves on a completed job
simResult == [present |-> TRUE, assetUrls |-> <<"sim-asset">>, meta |-> "sim-meta"]

\* completeJob that stores no meta: the variant C18 has to tell from the code
completeJobRowNoMeta(row, result) ==
    completedRow(row, IF result.present THEN result.assetUrls ELSE <<>>, "null")

\* JobService.completeJob's row: assetUrls: providerJob.result?.assetUrls ||
\* null, meta: providerJob.result?.meta || null (null is the empty sequence)
completeJobRow(row, result) ==
    completedRow(row, IF result.present THEN result.assetUrls ELSE <<>>,
                      IF result.present THEN result.meta ELSE "null")

\* JobService.completeJob: update jobs set status = "completed", ...
CompleteWrite(c) ==
    /\ calls[c].pc = "completeWrite"
    /\ jobs' = [jobs EXCEPT ![c] = completeJobRow(@, simResult)]
    /\ calls' = [calls EXCEPT ![c].pc = "finished"]
    /\ UNCHANGED <<users, sessions, provJobs, hooks, now, startCredits, refunds, deducted>>

\* JobService.failJob: select the job, then in the transaction select the user
FailReadUser(c) ==
    /\ calls[c].pc = "failReadUser"
    /\ calls' = [calls EXCEPT ![c].pc = "failWriteUser",
                              ![c].credRead = users[jobs[c].userId].credits]
    /\ UNCHANGED <<users, jobs, sessions, provJobs, hooks, now,
                   startCredits, refunds, deducted>>

\* a refund credited to the routes' user whoever owns the job: the variant
\* C27 has to tell from the code
FailWriteUserDemo(c) ==
    /\ calls[c].pc = "failWriteUser"
    /\ users' = [users EXCEPT ![DEMO_USER_ID].credits =
                                 refundedCredits(calls[c].credRead, jobs[c])]
    /\ refunds' = [refunds EXCEPT ![c] = @ + 1]
    /\ calls' = [calls EXCEPT ![c].pc = "failWriteJob", ![c].credRead = 0]
    /\ UNCHANGED <<jobs, sessions, provJobs, hooks, now, startCredits, deducted>>

\* JobService.failJob: update users set credits = user.credits + job.creditsUsed
FailWriteUser(c) ==
    /\ calls[c].pc = "failWriteUser"
    /\ users' = [users EXCEPT ![jobs[c].userId].credits =
                                 refundedCredits(calls[c].credRead, jobs[c])]
    /\ refunds' = [refunds EXCEPT ![c] = @ + 1]
    /\ calls' = [calls EXCEPT ![c].pc = "failWriteJob", ![c].credRead = 0]
    /\ UNCHANGED <<jobs, sessions, provJobs, hooks, now, startCredits, deducted>>

\* JobService.failJob: update jobs set status = "failed", meta = { error }
FailWriteJob(c) ==
    /\ calls[c].pc = "failWriteJob"
    /\ jobs' = [jobs EXCEPT ![c] = failedRow(@, calls[c].err)]
    /\ calls' = [calls EXCEPT ![c].pc = "finished"]
    /\ UNCHANGED <<users, sessions, provJobs, hooks, now, startCredits, refunds, deducted>>

(* ------------------------------ webhooks ------------------------------ *)

\* WebhookRequest.result / ProviderJob.result: absent, or { assetUrls, meta }
NoResult == [present |-> FALSE, assetUrls |-> <<>>, meta |-> "null"]
Results ==
    {NoResult,
     [present |-> TRUE, assetUrls |-> <<>>, meta |-> "vendor-meta"],
     [present |-> TRUE, assetUrls |-> <<"vendor-asset">>, meta |-> "vendor-meta"]}

\* the request bodies a sender may post: { jobId, status, result?, error? },
\* here without an error text (processWebhook then supplies its own).  A
\* body that names a provider job id is posted in one shape only.
Payloads ==
    [jobId : JobIds, status : {"completed"}, result : Results, error : {""}]
      \cup [jobId : JobIds, status : {"failed"}, result : {NoResult}, error : {""}]
      \cup [jobId : JobIds, status : {"processing"}, result : {NoResult}, error : {""}]
      \cup [jobId : ProviderJobIds, status : {"completed"},
            result : {r \in Results : r.assetUrls # <<>>}, error : {""}]

\* crypto.createHmac("sha256", key).update(payload).digest("hex"): the digest
\* is a function of the key and of the payload, and nothing else
hmacHex(key, payload) == <<key, payload>>

\* "sha256=" followed by the 64 hex digits of the digest: 71 characters, all
\* ASCII, so as many bytes
signatureOf(key, payload) ==
    [length |-> 7 + 64, bytes |-> 7 + 64, digest |-> hmacHex(key, payload)]

\* no x-signature header
NoSignature == [length |-> 0, bytes |-> 0, digest |-> <<>>]

\* the body with its status changed, as tampering with a signed body leaves it
tampered(body) == [body EXCEPT !.status = IF @ = "failed" THEN "completed" ELSE "failed"]

\* the x-signature headers a sender may present with a body: none; a
\* truncated one; the signature of the body under the shared or another
\* secret; the signature of another body; one of the expected length in
\* which a character is not ASCII (two bytes in UTF-8)
SignatureHeaders(body) ==
    {NoSignature,
     [signatureOf(WEBHOOK_SECRET, body) EXCEPT !.length = 7 + 32, !.bytes = 7 + 32],
     signatureOf(WEBHOOK_SECRET, body),
     signatureOf("another-secret", body),
     signatureOf(WEBHOOK_SECRET, tampered(body)),
     [signatureOf("another-secret", body) EXCEPT !.bytes = @ + 1]}

\* WebhookService.verifySignature: "true", "false", or "throws" when
\* crypto.timingSafeEqual is handed buffers of different byte lengths
\* (signature.length counts characters, Buffer.from(signature) encodes UTF-8)
verifySignature(payload, signature) ==
    IF signature = NoSignature THEN "false"
    ELSE LET expectedSignature == signatureOf(WEBHOOK_SECRET, payload) IN
         IF signature.length # expectedSignature.length THEN "false"
         ELSE IF signature.bytes # expectedSignature.bytes THEN "throws"
         ELSE IF signature = expectedSignature THEN "true" ELSE "false"

\* a getJob that answers for every id a job could have, inserted or not:
\* the variant C33 has to tell from the code
jobFoundAnyId(jobId) == jobId \in JobIds

\* JobService.getJob finds a row: the id is a job id and the row exists
jobFound(jobId) == jobId \in JobIds /\ jobs[jobId].status # "none"

\* a processWebhook that completes on the status alone: the variant C34 has
\* to tell from the code
processWebhookBranchAnyResult(body) ==
    IF body.status = "completed" THEN "completeWrite"
    ELSE IF body.status = "failed" THEN "failReadUser"
    ELSE "done"

\* WebhookService.processWebhook after getJob: completed with a result goes
\* to completeJob, failed to failJob, anything else does nothing
processWebhookBranch(body) ==
    IF body.status = "completed" /\ body.result.present THEN "completeWrite"
    ELSE IF body.status = "failed" THEN "failReadUser"
    ELSE "done"

\* processWebhook: error || "Webhook reported failure"
webhookError(body) == IF body.error # "" THEN body.error ELSE "Webhook reported failure"

\* POST /api/webhooks/vendor: verifySignature, then processWebhook up to the
\* branch on the status (JobService.getJob is issued at once); an exception
\* (verifySignature throws, job not found) is answered 500
WebhookArrives(w, body, signature) ==
    /\ hooks[w].pc = "idle"
    /\ \A v \in Hooks : v < w => hooks[v].pc # "idle"
    /\ LET authentic == signature = signatureOf(WEBHOOK_SECRET, body)
           verified == verifySignature(body, signature)
           arrived == [hooks[w] EXCEPT !.authentic = authentic] IN
       IF verified = "false"
          THEN hooks' = [hooks EXCEPT ![w] = [arrived EXCEPT !.pc = "done", !.response = 401]]
       ELSE IF verified = "throws"
          THEN hooks' = [hooks EXCEPT ![w] = [arrived EXCEPT !.pc = "done", !.response = 500]]
       ELSE IF ~jobFound(body.jobId)
          THEN hooks' = [hooks EXCEPT ![w] =
                           [arrived EXCEPT !.job = body.jobId, !.status = body.status,
                               !.pc = "done", !.response = 500]]
       ELSE LET branch == processWebhookBranch(body) IN
            hooks' = [hooks EXCEPT ![w] =
                        [arrived EXCEPT !.job = body.jobId, !.status = body.status,
                            !.assetUrls = body.result.assetUrls,
                            !.err = IF branch = "failReadUser" THEN webhookError(body) ELSE "",
                            !.onTerminal = jobs[body.jobId].status \in Terminal,
                            !.pc = branch,
                            !.response = IF branch = "done" THEN 200 ELSE @]]
    /\ UNCHANGED <<users, jobs, sessions, provJobs, calls, now,
                   startCredits, refunds, deducted>>

\* a sender that holds the shared secret signs callbacks only for jobs the
\* provider was given: by job id or by the provider job id it issued
vendorKnows(body, signature) ==
    signature = signatureOf(WEBHOOK_SECRET, body) =>
        \E c \in DOMAIN calls :
            /\ body.jobId \in {c, generateJobId(c)}
            /\ jobs[c].status # "none" => provJobs[c] # "none"

\* WebhookService.completeJob's row: assetUrls and meta of the body's result
webhookCompleteRow(row, result) == completedRow(row, result.assetUrls, result.meta)

\* WebhookService.completeJob: update jobs set status = "completed",
\* assetUrls, meta; then res.json({ status: "processed" })
HookCompleteWrite(w) ==
    /\ hooks[w].pc = "completeWrite"
    /\ jobs' = [jobs EXCEPT ![hooks[w].job] =
                   webhookCompleteRow(@, [present |-> TRUE,
                                          assetUrls |-> hooks[w].assetUrls,
                                          meta |-> "vendor-meta"])]
    /\ hooks' = [hooks EXCEPT ![w].pc = "done", ![w].response = 200]
    /\ UNCHANGED <<users, sessions, provJobs, calls, now, startCredits, refunds, deducted>>

\* WebhookService.failJob: select the job, then in the transaction select the user
HookFailReadUser(w) ==
    /\ hooks[w].pc = "failReadUser"
    /\ hooks' = [hooks EXCEPT ![w].pc = "failWriteUser",
                              ![w].credRead = users[jobs[hooks[w].job].userId].credits]
    /\ UNCHANGED <<users, jobs, sessions, provJobs, calls, now,
                   startCredits, refunds, deducted>>

\* WebhookService.failJob: update users set credits = user.credits + job.creditsUsed
HookFailWriteUser(w) ==
    /\ hooks[w].pc = "failWriteUser"
    /\ users' = [users EXCEPT ![jobs[hooks[w].job].userId].credits =
                                 refundedCredits(hooks[w].credRead, jobs[hooks[w].job])]
    /\ refunds' = [refunds EXCEPT ![hooks[w].job] = @ + 1]
    /\ hooks' = [hooks EXCEPT ![w].pc = "failWriteJob", ![w].credRead = 0]
    /\ UNCHANGED <<jobs, sessions, provJobs, calls, now, startCredits, deducted>>

\* WebhookService.failJob: update jobs set status = "failed", meta = { error }
HookFailWriteJob(w) ==
    /\ hooks[w].pc = "failWriteJob"
    /\ jobs' = [jobs EXCEPT ![hooks[w].job] = failedRow(@, hooks[w].err)]
    /\ hooks' = [hooks EXCEPT ![w].pc = "done", ![w].response = 200]
    /\ UNCHANGED <<users, sessions, provJobs, calls, now, startCredits, refunds, deducted>>

Next ==
    \/ \E c \in DOMAIN calls, t \in RequestedTools : CreateJobCheckCredits(c, t)
    \/ \E c \in DOMAIN calls : CheckRateLimit(c)
    \/ \E c \in DOMAIN calls : RateLimitReset(c)
    \/ \E c \in DOMAIN calls : DeductRead(c)
    \/ \E c \in DOMAIN calls : DeductWrite(c)
    \/ \E c \in DOMAIN calls : InsertJob(c)
    \/ \E c \in DOMAIN calls : InsertJobFails(c)
    \/ \E c \in DOMAIN calls : SessionIncrement(c)
    \/ \E c \in DOMAIN calls : MarkProcessing(c)
    \/ \E c \in DOMAIN calls : Submit(c)
    \/ \E c \in DOMAIN calls : SubmitThrows(c)
    \/ \E c \in DOMAIN calls : StoreProviderJobId(c)
    \/ \E c \in DOMAIN calls : ProviderCompletes(c)
    \/ \E c \in DOMAIN calls : ProviderFails(c)
    \/ \E c \in DOMAIN calls : Poll(c)
    \/ \E c \in DOMAIN calls : CompleteWrite(c)
    \/ \E c \in DOMAIN calls : FailReadUser(c)
    \/ \E c \in DOMAIN calls : FailWriteUser(c)
    \/ \E c \in DOMAIN calls : FailWriteJob(c)
    \/ \E w \in Hooks, b \in Payloads : \E s \in SignatureHeaders(b) :
          vendorKnows(b, s) /\ WebhookArrives(w, b, s)
    \/ \E w \in Hooks : HookCompleteWrite(w)
    \/ \E w \in Hooks : HookFailReadUser(w)
    \/ \E w \in Hooks : HookFailWriteUser(w)
    \/ \E w \in Hooks : HookFailWriteJob(w)

Spec == Init /\ [][Next]_vars

(* --------------- requests one after the other, with a clock ------------ *)

\* a createJob call is between its first query and its return
CallRunning ==
    \E c \in DOMAIN calls : calls[c].pc \notin {"idle", "returned", "markProcessing"}

\* half an hour passes between two requests
Tick ==
    /\ now < MaxTime
    /\ ~CallRunning
    /\ now' = now + 1
    /\ UNCHANGED <<users, jobs, sessions, provJobs, calls, hooks,
                   startCredits, refunds, deducted>>

RateTools == {"text2image", "texturing"}

RateInit == InitWith(MaxRateCalls, {LazyCredits})

RateNext ==
    \/ \E c \in DOMAIN calls, t \in RateTools : ~CallRunning /\ CreateJobCheckCredits(c, t)
    \/ \E c \in DOMAIN calls : CheckRateLimit(c)
    \/ \E c \in DOMAIN calls : RateLimitReset(c)
    \/ \E c \in DOMAIN calls : DeductRead(c)
    \/ \E c \in DOMAIN calls : DeductWrite(c)
    \/ \E c \in DOMAIN calls : InsertJob(c)
    \/ \E c \in DOMAIN calls : SessionIncrement(c)
    \/ Tick

RateSpec == RateInit /\ [][RateNext]_vars

(* ------------- heavy requests of one session that overlap ------------- *)

\* createJob calls of the run, and how many may be under way at once
MaxBurstCalls == 6
MaxOverlap == 2

\* the createJob calls between their first query and their return
running == {c \in DOMAIN calls : calls[c].pc \notin {"idle", "returned", "markProcessing"}}

BurstInit == InitWith(MaxBurstCalls, {LazyCredits})

\* texturing requests arrive while earlier ones are still being served; no
\* time passes, so all of them fall into one window
BurstNext ==
    \/ \E c \in DOMAIN calls :
          Cardinality(running) < MaxOverlap /\ CreateJobCheckCredits(c, "texturing")
    \/ \E c \in DOMAIN calls : CheckRateLimit(c)
    \/ \E c \in DOMAIN calls : RateLimitReset(c)
    \/ \E c \in DOMAIN calls : DeductRead(c)
    \/ \E c \in DOMAIN calls : DeductWrite(c)
    \/ \E c \in DOMAIN calls : InsertJob(c)
    \/ \E c \in DOMAIN calls : SessionIncrement(c)

BurstSpec == BurstInit /\ [][BurstNext]_vars

(* ------------------ requests as the routes receive them --------------- *)

MaxHttpCalls == 2

\* req.body.tool of POST /api/jobs, req.body.jobType of POST /api/generate
RequestedNames == Tools \cup {"no-such-tool"}
RequestedJobTypes == {"text-to-image", "text-to-3d"}
\* req.body.prompt: missing or empty, or a text
Prompts == {"", "a prompt"}

\* the route answers with an error status before createJob is called
Reject(c, name, route, prompt, status) ==
    /\ calls[c].pc = "idle"
    /\ \A d \in DOMAIN calls : d < c => calls[d].pc # "idle"
    /\ calls' = [calls EXCEPT ![c] = [@ EXCEPT !.pc = "returned", !.tool = name,
                                               !.route = route, !.prompt = prompt,
                                               !.at = now, !.result = status]]
    /\ UNCHANGED <<users, jobs, sessions, provJobs, hooks, now,
                   startCredits, refunds, deducted>>

\* POST /api/jobs: toolSchema.parse(tool) throws (answered 400), a prompt
\* that is falsy or no string is answered 400, else createJob
PostApiJobs(c, name, prompt) ==
    IF name \notin Tools \/ prompt = ""
       THEN Reject(c, name, "/api/jobs", prompt, "400")
       ELSE createJobFrom(c, name, "/api/jobs", prompt)

\* POST /api/generate: a jobType other than "text-to-image" is answered 400,
\* else createJob({ tool: "text2image", prompt, ... })
PostApiGenerate(c, jobType, prompt) ==
    IF jobType # "text-to-image"
       THEN Reject(c, jobType, "/api/generate", prompt, "400")
       ELSE createJobFrom(c, "text2image", "/api/generate", prompt)

HttpInit == InitWith(MaxHttpCalls, {StartCredits})

HttpNext ==
    \/ \E c \in DOMAIN calls, n \in RequestedNames, p \in Prompts : PostApiJobs(c, n, p)
    \/ \E c \in DOMAIN calls, t \in RequestedJobTypes, p \in Prompts :
          PostApiGenerate(c, t, p)
    \/ \E c \in DOMAIN calls : CheckRateLimit(c)
    \/ \E c \in DOMAIN calls : RateLimitReset(c)
    \/ \E c \in DOMAIN calls : DeductRead(c)
    \/ \E c \in DOMAIN calls : DeductWrite(c)
    \/ \E c \in DOMAIN calls : InsertJob(c)
    \/ \E c \in DOMAIN calls : SessionIncrement(c)

HttpSpec == HttpInit /\ [][HttpNext]_vars

(* --------------------------- admin credit grant ----------------------- *)

MaxAdminCalls == 2

ADMIN_PASSWORD == "admin123"

\* req.body of POST /api/admin/credits: amount 0 stands for a missing one
AdminPasswords == {ADMIN_PASSWORD, "wrong"}
AdminAmounts == {-1, 0, 2}

\* POST /api/admin/credits up to its first await: 401 on a wrong password,
\* 400 on !amount || amount <= 0, else the select of the user is issued
AdminArrives(c, password, amount) ==
    /\ calls[c].pc = "idle"
    /\ \A d \in DOMAIN calls : d < c => calls[d].pc # "idle"
    /\ LET call == [calls[c] EXCEPT !.route = "/api/admin/credits",
                                    !.userId = DEMO_USER_ID, !.amount = amount] IN
       calls' = [calls EXCEPT ![c] =
          IF password # ADMIN_PASSWORD
             THEN [call EXCEPT !.pc = "returned", !.result = "401"]
          ELSE IF amount = 0 \/ amount <= 0
             THEN [call EXCEPT !.pc = "returned", !.result = "400"]
          ELSE [call EXCEPT !.pc = "adminRead"]]
    /\ UNCHANGED <<users, jobs, sessions, provJobs, hooks, now,
                   startCredits, refunds, deducted>>

\* the select returns the user row
AdminRead(c) ==
    /\ calls[c].pc = "adminRead"
    /\ calls' = [calls EXCEPT ![c].pc = "adminWrite",
                              ![c].credRead = users[DEMO_USER_ID].credits]
    /\ UNCHANGED <<users, jobs, sessions, provJobs, hooks, now,
                   startCredits, refunds, deducted>>

\* update users set credits = user.credits + amount, from the row read; then
\* res.json with newBalance: user.credits + amount
AdminWrite(c) ==
    /\ calls[c].pc = "adminWrite"
    /\ users' = [users EXCEPT ![DEMO_USER_ID].credits = calls[c].credRead + calls[c].amount]
    /\ calls' = [calls EXCEPT ![c].pc = "returned", ![c].result = "ok"]
    /\ UNCHANGED <<jobs, sessions, provJobs, hooks, now, startCredits, refunds, deducted>>

AdminInit == InitWith(MaxAdminCalls, {StartCredits})

\* grants and createJob calls of the demo user, interleaved
AdminNext ==
    \/ \E c \in DOMAIN calls, pw \in AdminPasswords, n \in AdminAmounts :
          AdminArrives(c, pw, n)
    \/ \E c \in DOMAIN calls : AdminRead(c)
    \/ \E c \in DOMAIN calls : AdminWrite(c)
    \/ \E c \in DOMAIN calls : CreateJobCheckCredits(c, "text2image")
    \/ \E c \in DOMAIN calls : CheckRateLimit(c)
    \/ \E c \in DOMAIN calls : DeductRead(c)
    \/ \E c \in DOMAIN calls : DeductWrite(c)
    \/ \E c \in DOMAIN calls : InsertJob(c)

AdminSpec == AdminInit /\ [][AdminNext]_vars

(* -------------------- legacy POST /api/generate ---------------------- *)

MaxLegacyCalls == 3

\* req.body.jobType and req.body.prompt; "" stands for a missing field
LegacyJobTypes == {"", "text-to-image", "text-to-3D", "image-to-video", "text-to-audio"}
LegacySupported == {"text-to-image", "text-to-3D", "image-to-video"}
\* generationResult.success of the AIService call: the two placeholder
\* generators always answer success: false
generationOutcomes(jobType) ==
    IF jobType = "text-to-image" THEN {TRUE, FALSE} ELSE {FALSE}

\* storage.consumeCredits(userId, amount), "Atomically check and consume":
\* the balance after the call and the result { success, remaining }
consumeCredits(userId, amount) ==
    IF users[userId].credits >= amount
       THEN [success |-> TRUE, remaining |-> users[userId].credits - amount]
       ELSE [success |-> FALSE, remaining |-> users[userId].credits]

\* storage.addCredits(userId, amount): the balance after the call
addCredits(userId, amount) == users[userId].credits + amount

\* the handler up to its first await: 400 when prompt or jobType is missing,
\* else storage.consumeCredits is issued
LegacyArrives(c, prompt, jobType) ==
    /\ calls[c].pc = "idle"
    /\ \A d \in DOMAIN calls : d < c => calls[d].pc # "idle"
    /\ LET call == [calls[c] EXCEPT !.route = "/api/generate", !.userId = DEMO_USER_ID,
                                    !.tool = jobType, !.prompt = prompt] IN
       calls' = [calls EXCEPT ![c] =
          IF prompt = "" \/ jobType = ""
             THEN [call EXCEPT !.pc = "returned", !.result = "400"]
             ELSE [call EXCEPT !.pc = "consumeCredits"]]
    /\ UNCHANGED <<users, jobs, sessions, provJobs, hooks, now,
                   startCredits, refunds, deducted>>

\* consumeCredits answers: 402 without success; else the switch on jobType,
\* whose default answers 400 and whose cases issue the AIService call
LegacyConsumeCredits(c) ==
    /\ calls[c].pc = "consumeCredits"
    /\ LET creditResult == consumeCredits(calls[c].userId, 1) IN
       /\ users' = [users EXCEPT ![calls[c].userId].credits = creditResult.remaining]
       /\ calls' = [calls EXCEPT ![c] =
             IF ~creditResult.success
                THEN [@ EXCEPT !.pc = "returned", !.result = "402"]
             ELSE IF calls[c].tool \notin LegacySupported
                THEN [@ EXCEPT !.pc = "returned", !.result = "400",
                               !.credRead = creditResult.remaining]
             ELSE [@ EXCEPT !.pc = "generate", !.credRead = creditResult.remaining]]
    /\ UNCHANGED <<jobs, sessions, provJobs, hooks, now, startCredits, refunds, deducted>>

\* the AIService call answers: without success storage.addCredits is issued,
\* with success storage.createAsset
LegacyGenerated(c, success) ==
    /\ calls[c].pc = "generate"
    /\ success \in generationOutcomes(calls[c].tool)
    /\ calls' = [calls EXCEPT ![c].pc = IF success THEN "createAsset" ELSE "addCredits"]
    /\ UNCHANGED <<users, jobs, sessions, provJobs, hooks, now,
                   startCredits, refunds, deducted>>

\* addCredits(userId, 1) answers, then 422
LegacyRefund(c) ==
    /\ calls[c].pc = "addCredits"
    /\ users' = [users EXCEPT ![calls[c].userId].credits = addCredits(calls[c].userId, 1)]
    /\ calls' = [calls EXCEPT ![c].pc = "returned", ![c].result = "422"]
    /\ UNCHANGED <<jobs, sessions, provJobs, hooks, now, startCredits, refunds, deducted>>

\* createAsset answers and the asset is sent, or it rejects and the catch
\* answers 500
LegacyCreateAsset(c, stored) ==
    /\ calls[c].pc = "createAsset"
    /\ calls' = [calls EXCEPT ![c].pc = "returned",
                              ![c].result = IF stored THEN "success" ELSE "500"]
    /\ UNCHANGED <<users, jobs, sessions, provJobs, hooks, now,
                   startCredits, refunds, deducted>>

LegacyInit == InitWith(MaxLegacyCalls, {1, StartCredits})

LegacyNext ==
    \/ \E c \in DOMAIN calls, p \in Prompts, t \in LegacyJobTypes : LegacyArrives(c, p, t)
    \/ \E c \in DOMAIN calls : LegacyConsumeCredits(c)
    \/ \E c \in DOMAIN calls, ok \in BOOLEAN : LegacyGenerated(c, ok)
    \/ \E c \in DOMAIN calls : LegacyRefund(c)
    \/ \E c \in DOMAIN calls, stored \in BOOLEAN : LegacyCreateAsset(c, stored)

LegacySpec == LegacyInit /\ [][LegacyNext]_vars

(* ------------------------------ MemStorage ---------------------------- *)

MaxMemCalls == 3

MemUserIds == {"demo-user", "guest"}
MemAmounts == {1, 21}
MemOps == {"getUserCredits", "ensureUser", "deductUserCredits"}

\* the keys of the users Map: a userId handed to set/get, or a value of
\* randomUUID()
keyOf(userId) == <<userId, 0>>
uuid(n) == <<"uuid", n>>

\* undefined, as users.get answers for a key the Map does not hold
NoUser == [id |-> <<"none", 0>>, username |-> "none", credits |-> 0]

\* randomUUID(): a value no record carries yet
randomUUID == uuid(1 + Cardinality({k \in DOMAIN users : k[1] = "uuid"}))

\* MemStorage.getUser: this.users.get(id)
getUser(id) == IF keyOf(id) \in DOMAIN users THEN users[keyOf(id)] ELSE NoUser

\* the Map after this.users.set(key, user)
mapSet(key, user) == [k \in DOMAIN users \cup {key} |-> IF k = key THEN user ELSE users[k]]

\* MemStorage.createUser: { ...insertUser, id: randomUUID(), credits: 20 },
\* stored under id
createUser(insertUser) ==
    [key |-> randomUUID,
     user |-> [id |-> randomUUID, username |-> insertUser.username, credits |-> 20]]

IdleMemCall == [pc |-> "idle", op |-> "none", userId |-> "none", amount |-> 0,
                user |-> NoUser, credits |-> Null, ok |-> FALSE]

MemInit ==
    /\ users = [k \in {} |-> NoUser]
    /\ calls = [c \in 1..MaxMemCalls |-> IdleMemCall]
    /\ jobs = [c \in 1..MaxMemCalls |-> NoJob]
    /\ sessions = [s \in Sessions |->
                     [exists |-> FALSE, heavyJobsThisHour |-> 0, lastHeavyJobAt |-> Null]]
    /\ provJobs = [c \in 1..MaxMemCalls |-> "none"]
    /\ hooks = [w \in Hooks |-> IdleHook]
    /\ now = 0
    /\ startCredits = 20
    /\ refunds = [c \in 1..MaxMemCalls |-> 0]
    /\ deducted = [c \in 1..MaxMemCalls |-> 0]

\* getUserCredits, ensureUser or deductUserCredits is called: each runs on
\* into ensureUser and getUser, which reads the Map before the first await
MemCall(c, op, userId, amount) ==
    /\ calls[c].pc = "idle"
    /\ \A d \in DOMAIN calls : d < c => calls[d].pc # "idle"
    /\ calls' = [calls EXCEPT ![c] = [@ EXCEPT !.pc = "ensureUser", !.op = op,
                                               !.userId = userId, !.amount = amount,
                                               !.user = getUser(userId)]]
    /\ UNCHANGED <<users, jobs, sessions, provJobs, hooks, now,
                   startCredits, refunds, deducted>>

\* ensureUser resumes: if (!user) user = await this.createUser({ username: userId, .. })
MemEnsureUser(c) ==
    /\ calls[c].pc = "ensureUser"
    /\ IF calls[c].user = NoUser
          THEN LET created == createUser([username |-> calls[c].userId]) IN
               /\ users' = mapSet(created.key, created.user)
               /\ calls' = [calls EXCEPT ![c].pc = "haveUser", ![c].user = created.user]
          ELSE /\ calls' = [calls EXCEPT ![c].pc = "haveUser"]
               /\ UNCHANGED users
    /\ UNCHANGED <<jobs, sessions, provJobs, hooks, now, startCredits, refunds, deducted>>

\* ensureUser has returned user: getUserCredits returns user.credits,
\* deductUserCredits compares and stores { ...user, credits: user.credits - amount }
\* under userId
MemReturn(c) ==
    /\ calls[c].pc = "haveUser"
    /\ LET user == calls[c].user IN
       IF calls[c].op = "deductUserCredits" /\ user.credits >= calls[c].amount
          THEN /\ users' = mapSet(keyOf(calls[c].userId),
                                  [user EXCEPT !.credits = user.credits - calls[c].amount])
               /\ calls' = [calls EXCEPT ![c].pc = "returned", ![c].ok = TRUE]
          ELSE /\ calls' = [calls EXCEPT ![c].pc = "returned",
                                         ![c].credits = IF calls[c].op = "getUserCredits"
                                                           THEN user.credits ELSE Null]
               /\ UNCHANGED users
    /\ UNCHANGED <<jobs, sessions, provJobs, hooks, now, startCredits, refunds, deducted>>

MemNext ==
    \/ \E c \in DOMAIN calls, op \in MemOps, u \in MemUserIds, n \in MemAmounts :
          MemCall(c, op, u, n)
    \/ \E c \in DOMAIN calls : MemEnsureUser(c)
    \/ \E c \in DOMAIN calls : MemReturn(c)

MemSpec == MemInit /\ [][MemNext]_vars

(* ----------------------- the simulation provider ---------------------- *)

\* a string is the sequence of its characters
upperCaseLetters ==
    <<"A", "B", "C", "D", "E", "F", "G", "H", "I", "J", "K", "L", "M",
      "N", "O", "P", "Q", "R", "S", "T", "U", "V", "W", "X", "Y", "Z">>
lowerCaseLetters ==
    <<"a", "b", "c", "d", "e", "f", "g", "h", "i", "j", "k", "l", "m",
      "n", "o", "p", "q", "r", "s", "t", "u", "v", "w", "x", "y", "z">>

\* String.prototype.toLowerCase
lowerCase(ch) ==
    IF \E i \in DOMAIN upperCaseLetters : upperCaseLetters[i] = ch
    THEN lowerCaseLetters[CHOOSE i \in DOMAIN upperCaseLetters : upperCaseLetters[i] = ch]
    ELSE ch

toLowerCase(s) == [i \in DOMAIN s |-> lowerCase(s[i])]

\* PROMPT_TO_MODEL without its 'default' entry, in key order: the keywords of
\* each alternation and the model of the set
PROMPT_TO_MODEL ==
    <<[keywords |->
       {<<"t", "e", "a", "p", "o", "t">>, <<"k", "e", "t", "t", "l", "e">>,
        <<"p", "o", "t">>, <<"k", "i", "t", "c", "h", "e", "n">>,
        <<"t", "e", "a">>, <<"c", "o", "f", "f", "e", "e">>},
      modelUrl |-> "https://threejs.org/examples/models/gltf/teapot.gltf"],
     [keywords |->
       {<<"r", "o", "b", "o", "t">>, <<"a", "n", "d", "r", "o", "i", "d">>,
        <<"m", "e", "c", "h">>, <<"m", "a", "c", "h", "i", "n", "e">>,
        <<"t", "e", "c", "h">>, <<"c", "y", "b", "e", "r">>,
        <<"f", "u", "t", "u", "r", "i", "s", "t", "i", "c">>},
      modelUrl |-> "https://modelviewer.dev/shared-assets/models/Astronaut.glb"],
     [keywords |->
       {<<"d", "o", "g">>, <<"c", "a", "t">>,
        <<"a", "n", "i", "m", "a", "l">>, <<"p", "e", "t">>,
        <<"c", "r", "e", "a", "t", "u", "r", "e">>,
        <<"d", "r", "a", "g", "o", "n">>, <<"b", "i", "r", "d">>,
        <<"f", "i", "s", "h">>},
      modelUrl |-> "https://threejs.org/examples/models/gltf/Horse.glb"],
     [keywords |->
       {<<"c", "a", "r">>, <<"v", "e", "h", "i", "c", "l", "e">>,
        <<"t", "r", "u", "c", "k">>, <<"s", "h", "i", "p">>,
        <<"p", "l", "a", "n", "e">>, <<"b", "o", "a", "t">>,
        <<"m", "o", "t", "o", "r", "c", "y", "c", "l", "e">>},
      modelUrl |-> "https://threejs.org/examples/models/gltf/ferrari.glb"],
     [keywords |->
       {<<"f", "l", "o", "w", "e", "r">>, <<"p", "l", "a", "n", "t">>,
        <<"t", "r", "e", "e">>, <<"g", "a", "r", "d", "e", "n">>,
        <<"n", "a", "t", "u", "r", "e">>,
        <<"o", "r", "g", "a", "n", "i", "c">>, <<"b", "l", "o", "o", "m">>,
        <<"p", "e", "t", "a", "l">>, <<"r", "o", "s", "e">>,
        <<"t", "u", "l", "i", "p">>, <<"l", "i", "l", "y">>,
        <<"d", "a", "i", "s", "y">>},
      modelUrl |-> "https://modelviewer.dev/shared-assets/models/Flower/Flower.glb"],
     [keywords |->
       {<<"h", "o", "u", "s", "e">>,
        <<"b", "u", "i", "l", "d", "i", "n", "g">>,
        <<"c", "a", "s", "t", "l", "e">>, <<"t", "o", "w", "e", "r">>,
        <<"s", "t", "r", "u", "c", "t", "u", "r", "e">>,
        <<"a", "r", "c", "h", "i", "t", "e", "c", "t", "u", "r", "e">>},
      modelUrl |-> "https://threejs.org/examples/models/gltf/LittlestTokyo.glb"]>>

PROMPT_TO_MODEL_default ==
    "https://threejs.org/examples/models/gltf/DamagedHelmet/DamagedHelmet.gltf"

\* new RegExp(keywords, 'i').test(s): some alternative of the alternation
\* matches at some position of s, letters compared without regard to case
regexTest(keywords, s) ==
    \E k \in keywords : \E i \in 1..(Len(s) - Len(k) + 1) :
        toLowerCase(SubSeq(s, i, i + Len(k) - 1)) = toLowerCase(k)

\* the loop of selectModelFromPrompt from entry i on
RECURSIVE selectFrom(_, _)
selectFrom(i, lowerPrompt) ==
    IF i > Len(PROMPT_TO_MODEL) THEN PROMPT_TO_MODEL_default
    ELSE IF regexTest(PROMPT_TO_MODEL[i].keywords, lowerPrompt)
         THEN PROMPT_TO_MODEL[i].modelUrl
         ELSE selectFrom(i + 1, lowerPrompt)

\* a selection that keeps the last set that matches: the variant C29 has to
\* tell from the code
selectModelLastMatch(prompt) ==
    LET hits == {i \in DOMAIN PROMPT_TO_MODEL :
                    regexTest(PROMPT_TO_MODEL[i].keywords, toLowerCase(prompt))} IN
    IF hits = {} THEN PROMPT_TO_MODEL_default
    ELSE PROMPT_TO_MODEL[CHOOSE i \in hits : \A j \in hits : j <= i].modelUrl

selectModelFromPrompt(prompt) == selectFrom(1, toLowerCase(prompt))

MaxSimCalls == 1
MaxSimTime == 6
MaxFragments == 2

\* the pieces the prompts of the requests are put together from
Fragments ==
    {<<"R", "o", "b", "o", "t">>,
     <<"C", "A", "T">>,
     <<"f", "l", "o", "w", "e", "r">>,
     <<"p", "o", "t">>,
     <<"p", "l", "a", "n", "e">>,
     <<"t">>,
     <<"h", "o", "u", "s", "e">>,
     <<"x", "y", "z">>,
     <<"a", " ">>}

RECURSIVE PromptsOf(_)
PromptsOf(n) ==
    IF n = 0 THEN {<<>>}
    ELSE LET shorter == PromptsOf(n - 1) IN
         shorter \cup {p \o f : p \in shorter, f \in Fragments}

SimPrompts == PromptsOf(MaxFragments)

\* the delay of the timer each generate method arms, in units of 2000 ms
simDelay == [text2image |-> 1, text2mesh |-> 4, texturing |-> 3, img2video |-> 5]

\* the ways the timer's callback can end: the status it sets, whether an
\* exception was caught, whether simulateWebhookWithFileDownload then runs
simOutcomes(tool) ==
    CASE tool = "text2image" ->
           {[status |-> "completed", threw |-> FALSE, webhook |-> FALSE],
            [status |-> "failed", threw |-> FALSE, webhook |-> FALSE],
            [status |-> "failed", threw |-> TRUE, webhook |-> FALSE]}
      [] tool = "text2mesh" ->
           {[status |-> "completed", threw |-> FALSE, webhook |-> FALSE],
            [status |-> "completed", threw |-> FALSE, webhook |-> TRUE],
            [status |-> "failed", threw |-> TRUE, webhook |-> FALSE]}
      [] OTHER -> {[status |-> "completed", threw |-> FALSE, webhook |-> FALSE]}

\* job.result.assetUrls as the callback sets it
simAssetUrls(tool, prompt) ==
    CASE tool = "text2image" -> <<"flux-image-url">>
      [] tool = "text2mesh" -> <<selectModelFromPrompt(prompt)>>
      [] tool = "texturing" -> <<"TEXTURE_ALBEDO", "TEXTURE_NORMAL", "TEXTURE_METALLIC">>
      [] tool = "img2video" -> <<"VIDEO_SAMPLE">>

\* generate methods that call createJob() with its default status, "queued":
\* the variant C30 has to tell from the code
SimGenerateQueued(c, tool, prompt) ==
    /\ calls[c].pc = "idle"
    /\ \A d \in DOMAIN calls : d < c => calls[d].pc # "idle"
    /\ provJobs' = [provJobs EXCEPT ![c] = "queued"]
    /\ calls' = [calls EXCEPT ![c] = [@ EXCEPT !.pc = "simTimer", !.tool = tool,
                                               !.prompt = prompt, !.at = now,
                                               !.provider = "SIM", !.result = <<>>]]
    /\ UNCHANGED <<users, jobs, sessions, hooks, now, startCredits, refunds, deducted>>

\* generateImage / generateMesh / generateTextures / generateVideo:
\* createJob("processing") puts the job into the map, the timer is armed,
\* the job is returned
SimGenerate(c, tool, prompt) ==
    /\ calls[c].pc = "idle"
    /\ \A d \in DOMAIN calls : d < c => calls[d].pc # "idle"
    /\ provJobs' = [provJobs EXCEPT ![c] = "processing"]
    /\ calls' = [calls EXCEPT ![c] = [@ EXCEPT !.pc = "simTimer", !.tool = tool,
                                               !.prompt = prompt, !.at = now,
                                               !.provider = "SIM", !.result = <<>>]]
    /\ UNCHANGED <<users, jobs, sessions, hooks, now, startCredits, refunds, deducted>>

\* the timer's callback, no sooner than the delay after the submit
SimTimer(c, outcome) ==
    /\ calls[c].pc = "simTimer"
    /\ now >= calls[c].at + simDelay[calls[c].tool]
    /\ outcome \in simOutcomes(calls[c].tool)
    /\ provJobs' = [provJobs EXCEPT ![c] = outcome.status]
    /\ calls' = [calls EXCEPT
          ![c].pc = IF outcome.webhook THEN "simWebhook" ELSE "finished",
          ![c].err = IF outcome.threw THEN "exception" ELSE @,
          ![c].result = IF outcome.status = "completed"
                        THEN simAssetUrls(calls[c].tool, calls[c].prompt) ELSE @]
    /\ UNCHANGED <<users, jobs, sessions, hooks, now, startCredits, refunds, deducted>>

\* simulateWebhookWithFileDownload with BASE_URL set: the model is downloaded
\* and result.assetUrls replaced by the local path, or the download throws
\* and the catch logs
SimWebhookDownload(c, stored) ==
    /\ calls[c].pc = "simWebhook"
    /\ calls' = [calls EXCEPT ![c].pc = "finished",
                              ![c].result = IF stored THEN <<"local-path">> ELSE @]
    /\ UNCHANGED <<users, jobs, sessions, provJobs, hooks, now,
                   startCredits, refunds, deducted>>

\* 2000 ms pass
SimTick ==
    /\ now < MaxSimTime
    /\ now' = now + 1
    /\ UNCHANGED <<users, jobs, sessions, provJobs, calls, hooks,
                   startCredits, refunds, deducted>>

SimInit == InitWith(MaxSimCalls, {StartCredits})

SimNext ==
    \/ \E c \in DOMAIN calls, p \in SimPrompts : SimGenerate(c, "text2mesh", p)
    \/ \E c \in DOMAIN calls, t \in Tools \ {"text2mesh"} :
          SimGenerate(c, t, <<"a", " ", "p", "r", "o", "m", "p", "t">>)
    \/ \E c \in DOMAIN calls : \E o \in simOutcomes(calls[c].tool) : SimTimer(c, o)
    \/ \E c \in DOMAIN calls, stored \in BOOLEAN : SimWebhookDownload(c, stored)
    \/ SimTick

SimSpec == SimInit /\ [][SimNext]_vars

\* every generate method, called with one prompt
SimLifeNext ==
    \/ \E c \in DOMAIN calls, t \in Tools :
          SimGenerate(c, t, <<"a", " ", "C", "a", "t">>)
    \/ \E c \in DOMAIN calls : \E o \in simOutcomes(calls[c].tool) : SimTimer(c, o)
    \/ \E c \in DOMAIN calls, stored \in BOOLEAN : SimWebhookDownload(c, stored)
    \/ SimTick

\* time passes and the event loop runs every timer that is due
SimLifeSpec ==
    /\ SimInit /\ [][SimLifeNext]_vars
    /\ WF_vars(SimTick)
    /\ \A c \in 1..MaxSimCalls :
          WF_vars(\E o \in simOutcomes(calls[c].tool) : SimTimer(c, o))

(* ------------------ JobService called for several users --------------- *)

MaxUserCalls == 2

OTHER_USER_ID == "other-user"
ServiceUsers == {DEMO_USER_ID, OTHER_USER_ID}

\* both users have a row and the same balance
UsersInit ==
    /\ users = [u \in ServiceUsers |-> [exists |-> TRUE, credits |-> StartCredits]]
    /\ startCredits = StartCredits
    /\ InitTables(MaxUserCalls)

\* createJob is called with any userId; the chains of the jobs interleave
UsersNext ==
    \/ \E c \in DOMAIN calls, u \in ServiceUsers :
          createJobFor(c, u, "text2image", "JobService.createJob", "a prompt")
    \/ \E c \in DOMAIN calls : CheckRateLimit(c)
    \/ \E c \in DOMAIN calls : DeductRead(c)
    \/ \E c \in DOMAIN calls : DeductWrite(c)
    \/ \E c \in DOMAIN calls : InsertJob(c)
    \/ \E c \in DOMAIN calls : MarkProcessing(c)
    \/ \E c \in DOMAIN calls : Submit(c)
    \/ \E c \in DOMAIN calls : StoreProviderJobId(c)
    \/ \E c \in DOMAIN calls : ProviderCompletes(c)
    \/ \E c \in DOMAIN calls : ProviderFails(c)
    \/ \E c \in DOMAIN calls : Poll(c)
    \/ \E c \in DOMAIN calls : CompleteWrite(c)
    \/ \E c \in DOMAIN calls : FailReadUser(c)
    \/ \E c \in DOMAIN calls : FailWriteUser(c)
    \/ \E c \in DOMAIN calls : FailWriteJob(c)

UsersSpec == UsersInit /\ [][UsersNext]_vars

(* ------------------- start-up, before any user exists ----------------- *)

MaxLazyCalls == 2

\* no row of the users table has the id the routes use
LazyInit ==
    /\ users = [u \in Users |-> [exists |-> FALSE, credits |-> 0]]
    /\ startCredits = 0
    /\ InitTables(MaxLazyCalls)

\* GET /api/credits when the select finds no user: insert the demo user with
\* credits: 25 and answer { credits: 25 }
GetCreditsCreatesUser ==
    /\ ~users[DEMO_USER_ID].exists
    /\ users' = [users EXCEPT ![DEMO_USER_ID] = [exists |-> TRUE, credits |-> LazyCredits]]
    /\ startCredits' = LazyCredits
    /\ UNCHANGED <<jobs, sessions, provJobs, calls, hooks, now, refunds, deducted>>

LazyNext ==
    \/ GetCreditsCreatesUser
    \/ \E c \in DOMAIN calls, t \in RequestedTools : CreateJobCheckCredits(c, t)
    \/ \E c \in DOMAIN calls : CheckRateLimit(c)
    \/ \E c \in DOMAIN calls : RateLimitReset(c)
    \/ \E c \in DOMAIN calls : DeductRead(c)
    \/ \E c \in DOMAIN calls : DeductWrite(c)
    \/ \E c \in DOMAIN calls : InsertJob(c)
    \/ \E c \in DOMAIN calls : SessionIncrement(c)

LazySpec == LazyInit /\ [][LazyNext]_vars

(* ---- dispatch with exceptions at every step, any holder of the secret --- *)

DispatchInit == InitWith(MaxCalls, {StartCredits})

\* createJob calls come one after the other; the startJob and poll chains
\* they leave behind run on; a signed webhook may name any job at any time
DispatchNext ==
    \/ \E c \in DOMAIN calls : ~CallRunning /\ CreateJobCheckCredits(c, "text2image")
    \/ \E c \in DOMAIN calls : CheckRateLimit(c)
    \/ \E c \in DOMAIN calls : DeductRead(c)
    \/ \E c \in DOMAIN calls : DeductWrite(c)
    \/ \E c \in DOMAIN calls : InsertJob(c)
    \/ \E c \in DOMAIN calls : MarkProcessing(c)
    \/ \E c \in DOMAIN calls : MarkProcessingThrows(c)
    \/ \E c \in DOMAIN calls : Submit(c)
    \/ \E c \in DOMAIN calls : SubmitThrows(c)
    \/ \E c \in DOMAIN calls : StoreProviderJobId(c)
    \/ \E c \in DOMAIN calls : StoreProviderJobIdThrows(c)
    \/ \E c \in DOMAIN calls : ProviderCompletes(c)
    \/ \E c \in DOMAIN calls : ProviderFails(c)
    \/ \E c \in DOMAIN calls : Poll(c)
    \/ \E c \in DOMAIN calls : CompleteWrite(c)
    \/ \E c \in DOMAIN calls : FailReadUser(c)
    \/ \E c \in DOMAIN calls : FailWriteUser(c)
    \/ \E c \in DOMAIN calls : FailWriteJob(c)
    \/ \E w \in Hooks, b \in Payloads : \E s \in SignatureHeaders(b) : WebhookArrives(w, b, s)
    \/ \E w \in Hooks : HookCompleteWrite(w)
    \/ \E w \in Hooks : HookFailReadUser(w)
    \/ \E w \in Hooks : HookFailWriteUser(w)
    \/ \E w \in Hooks : HookFailWriteJob(w)

DispatchSpec == DispatchInit /\ [][DispatchNext]_vars

(* ---- one job at a time, polled to the ceiling, under any environment ---- *)

\* number of createJob calls when each job is run to its end before the next
MaxPollCalls == 1

\* no createJob call and no startJob / poll chain is under way
Quiet == \A c \in DOMAIN calls : calls[c].pc \in {"idle", "returned", "finished"}

PollTools == {"text2mesh"}

PollInit == InitWith(MaxPollCalls, {StartCredits})

\* the steps of call c that the program takes by itself: awaited queries
\* and provider calls return, timers fire
ChainStep(c) ==
    \/ CheckRateLimit(c)
    \/ RateLimitReset(c)
    \/ DeductRead(c)
    \/ DeductWrite(c)
    \/ InsertJob(c)
    \/ SessionIncrement(c)
    \/ MarkProcessing(c)
    \/ \E e \in Envs, r \in {"processing", "failed"} : SubmitIn(c, e, r)
    \/ StoreProviderJobId(c)
    \/ pollOnce(c)
    \/ CompleteWrite(c)
    \/ FailReadUser(c)
    \/ FailWriteUser(c)
    \/ FailWriteJob(c)

PollNext ==
    \/ \E c \in DOMAIN calls, t \in PollTools : Quiet /\ CreateJobCheckCredits(c, t)
    \/ \E c \in DOMAIN calls : ChainStep(c)
    \/ \E c \in DOMAIN calls : ProviderCompletes(c)
    \/ \E c \in DOMAIN calls : ProviderFails(c)
    \/ \E w \in Hooks, b \in Payloads : \E s \in SignatureHeaders(b) :
          vendorKnows(b, s) /\ WebhookArrives(w, b, s)
    \/ \E w \in Hooks : HookCompleteWrite(w)
    \/ \E w \in Hooks : HookFailReadUser(w)
    \/ \E w \in Hooks : HookFailWriteUser(w)
    \/ \E w \in Hooks : HookFailWriteJob(w)

\* the event loop runs every continuation that is ready and every timer due
PollSpec ==
    PollInit /\ [][PollNext]_vars /\ \A c \in 1..MaxPollCalls : WF_vars(ChainStep(c))

(* ----------------- callbacks of the Replicate vendor ------------------ *)

\* the callbacks Replicate posts: payload.id (0 when absent), payload.status
\* ("" when absent), payload.output and payload.error
ReplicatePayloads ==
    [id : {0, 1}, status : {"", "starting", "processing", "succeeded", "failed", "canceled"},
     output : {"undefined", "model-url"}, error : {"", "vendor error"}]

\* `replicate_${payload.id}`: no job id and no provider job id has this form
replicateJobId(id) == 200 + id

\* the WebhookRequest handleWebhook builds from a callback
replicateWebhookData(payload) ==
    [jobId |-> replicateJobId(payload.id),
     status |-> IF payload.status = "succeeded" THEN "completed" ELSE "failed",
     result |-> IF payload.status = "succeeded"
                THEN [present |-> TRUE, assetUrls |-> <<payload.output>>,
                      meta |-> "vendor-meta"]
                ELSE NoResult,
     error |-> payload.error]

\* ReplicateProvider.handleWebhook: without payload.id or payload.status
\* nothing is done; otherwise the data goes to processWebhook, directly (no
\* signature is checked on this path, so the delivery is one that verifies)
ReplicateHandleWebhook(w, payload) ==
    IF payload.id = 0 \/ payload.status = ""
    THEN /\ hooks[w].pc = "idle"
         /\ \A v \in Hooks : v < w => hooks[v].pc # "idle"
         /\ hooks' = [hooks EXCEPT ![w].pc = "done"]
         /\ UNCHANGED <<users, jobs, sessions, provJobs, calls, now,
                        startCredits, refunds, deducted>>
    ELSE LET data == replicateWebhookData(payload) IN
         WebhookArrives(w, data, signatureOf(WEBHOOK_SECRET, data))

ReplicateNext ==
    \/ \E c \in DOMAIN calls, t \in PollTools : Quiet /\ CreateJobCheckCredits(c, t)
    \/ \E c \in DOMAIN calls : ChainStep(c)
    \/ \E c \in DOMAIN calls : ProviderCompletes(c)
    \/ \E c \in DOMAIN calls : ProviderFails(c)
    \/ \E w \in Hooks, p \in ReplicatePayloads : ReplicateHandleWebhook(w, p)

ReplicateSpec == PollInit /\ [][ReplicateNext]_vars

(* ------------------------------- claims -------------------------------- *)

RECURSIVE SumOver(_, _)
SumOver(f, S) ==
    IF S = {} THEN 0
    ELSE LET x == CHOOSE y \in S : TRUE IN f[x] + SumOver(f, S \ {x})

\* no request, poll chain or webhook is part-way through its queries
Settled ==
    /\ \A c \in DOMAIN calls : calls[c].pc \in {"idle", "returned", "finished"}
    /\ \A w \in Hooks : hooks[w].pc \in {"idle", "done"}

\* creditsUsed of the jobs that are queued, processing or completed
heldCredits ==
    [j \in DOMAIN jobs |->
        IF jobs[j].status \in {"queued", "processing", "completed"}
           THEN jobs[j].creditsUsed ELSE 0]

balance == users[DEMO_USER_ID].credits

\* C1: credit conservation. Once every request, poll chain and webhook has
\* run to its end (and no insert was refused), the balance is the starting
\* balance minus the creditsUsed of the queued, processing and completed
\* jobs, and every failed job was refunded exactly once.
C1_CreditConservation ==
    (Settled /\ \A c \in DOMAIN calls : calls[c].result # "error") =>
        /\ balance = startCredits - SumOver(heldCredits, DOMAIN jobs)
        /\ \A j \in DOMAIN jobs : jobs[j].status = "failed" => refunds[j] = 1

\* C2: no double refund. However the poller's failure and a verified failed
\* webhook interleave, a job's creditsUsed is added back at most once.
C2_NoDoubleRefund ==
    \A j \in DOMAIN jobs : refunds[j] <= 1

\* C3: terminal states are absorbing. A step never changes the status of a
\* job that is completed or failed, and a status only moves forward:
\* queued -> processing -> completed, or queued / processing -> failed.
C3_TerminalAbsorbing ==
    [][\A j \in DOMAIN jobs :
          \/ jobs'[j].status = jobs[j].status
          \/ jobs[j].status = "none" /\ jobs'[j].status = "queued"
          \/ jobs[j].status = "queued" /\ jobs'[j].status \in {"processing", "failed"}
          \/ jobs[j].status = "processing" /\ jobs'[j].status \in Terminal]_vars

\* C4: the check-and-deduct is linearizable per user. While nothing has been
\* refunded, the balance is never negative and is the starting balance
\* minus the cost of every call whose deduction was written: no deduction
\* is lost, so the successful calls never cost more than the balance held.
C4_DeductLinearizable ==
    (\A c \in DOMAIN calls : refunds[c] = 0) =>
        /\ balance >= 0
        /\ balance = startCredits - SumOver(deducted, DOMAIN calls)

\* C5: signature rejection. A delivery whose x-signature is not the HMAC of
\* its body under the shared secret (missing, wrong length, wrong digest) is
\* answered 401 and never reaches processWebhook.
C5_SignatureRejection ==
    \A w \in Hooks :
        (hooks[w].pc # "idle" /\ ~hooks[w].authentic) =>
            hooks[w].pc = "done" /\ hooks[w].response = 401

\* C6: webhook delivery is idempotent. A verified webhook for a job that was
\* already completed or failed when it arrived changes neither the jobs
\* table nor any balance.
C6_WebhookIdempotent ==
    [][\A w \in Hooks :
          (hooks[w].onTerminal /\ hooks'[w] # hooks[w]) =>
              (jobs' = jobs /\ users' = users)]_vars

\* C7: failure transition. A failed job has been refunded exactly once and
\* carries a non-empty meta.error, and a refund is never visible while its
\* job is not failed: refund and status change are one step.
C7_FailureTransition ==
    \A j \in DOMAIN jobs :
        /\ jobs[j].status = "failed" => (refunds[j] = 1 /\ jobs[j].error # "")
        /\ refunds[j] >= 1 => jobs[j].status = "failed"

\* a successful heavy createJob call
heavyCreated(c) == calls[c].tool \in heavyJobs /\ calls[c].result = "ok"

\* the number of heavy jobs created before call c in one unbroken run that
\* reaches up to time t: each at most one hour after the one before, the
\* last at most one hour before t
RECURSIVE heavyRun(_, _)
heavyRun(c, t) ==
    LET before == {d \in DOMAIN calls : d < c /\ heavyCreated(d)} IN
    IF before = {} THEN 0
    ELSE LET d == CHOOSE x \in before : \A y \in before : y <= x IN
         IF t - calls[d].at > Hour THEN 0 ELSE 1 + heavyRun(d, calls[d].at)

C9_InsufficientCreditsFailFast ==
    /\ [](\A c \in DOMAIN calls :
             calls[c].result = "InsufficientCredits" =>
                 /\ calls[c].pc = "returned"
                 /\ jobs[c].status = "none"
                 /\ provJobs[c] = "none"
                 /\ deducted[c] = 0)
    /\ [][\A c \in DOMAIN calls :
             (calls[c].pc = "idle" /\ calls'[c].pc # "idle"
                 /\ balance < toolCosts[calls'[c].tool]) =>
                 /\ calls'[c].pc = "returned"
                 /\ calls'[c].result = "InsufficientCredits"
                 /\ UNCHANGED <<users, jobs, sessions, provJobs>>]_vars

\* C9 witness: a call was refused for lack of credits while another call's
\* job exists
C9_Witness ==
    \E c, d \in DOMAIN calls :
        /\ calls[c].result = "InsufficientCredits"
        /\ jobs[d].status # "none"
        /\ balance < toolCosts[calls[c].tool]

\* C10: the job row is created in the same transaction as the deduction. A
\* call that returned without a job has deducted nothing.
C10_JobCreatedWithDeduction ==
    \A c \in DOMAIN calls :
        (calls[c].pc = "returned" /\ jobs[c].status = "none") => deducted[c] = 0

\* the messages startJob's catch passes to failJob
DispatchErrors == {"Database unavailable", "Provider unavailable"}

failPath == {"failReadUser", "failWriteUser", "failWriteJob", "finished"}

C12_EventuallyTerminal ==
    \A c \in 1..MaxPollCalls :
        (calls[c].result = "ok") ~> (jobs[c].status \in Terminal)

\* C12 witness: a job whose provider never settled was failed by the poller
\* at the ceiling
C12_Witness ==
    \E c \in DOMAIN calls :
        /\ calls[c].result = "ok" /\ calls[c].pc = "finished"
        /\ provJobs[c] = "processing"
        /\ jobs[c].status = "failed" /\ jobs[c].error = "Job timed out"

\* the steps after a poll has left the timer
afterPoll == {"completeWrite", "failReadUser", "failWriteUser",
              "failWriteJob", "finished"}

\* a step of job c's poller that calls getJobStatus
polled(c) ==
    /\ calls[c].pc = "pollTimer"
    /\ calls'[c].attempts = calls[c].attempts + 1

\* C13: the poller calls getJobStatus at most 60 times for a job, each call
\* after a timer; a completed result completes the job, a failed result
\* fails it with the refund, 60 non-terminal results fail it with
\* "Job timed out" and the refund; once a poll has completed, failed or
\* timed out, no further attempt is scheduled.
C13_PollerCeiling ==
    /\ [](\A c \in 1..MaxPollCalls : calls[c].attempts <= maxAttempts)
    /\ [][\A c \in 1..MaxPollCalls :
            /\ (polled(c) /\ statusFound(calls[c].provider)) =>
                 /\ provJobs[c] = "completed" => calls'[c].pc = "completeWrite"
                 /\ provJobs[c] = "failed" =>
                      /\ calls'[c].pc = "failReadUser"
                      /\ calls'[c].err = "Provider job failed"
                 /\ (provJobs[c] = "processing"
                        /\ calls'[c].attempts < maxAttempts) =>
                      calls'[c].pc = "pollTimer"
                 /\ (provJobs[c] = "processing"
                        /\ calls'[c].attempts = maxAttempts) =>
                      /\ calls'[c].pc = "failReadUser"
                      /\ calls'[c].err = "Job timed out"
            /\ (calls[c].pc = "completeWrite" /\ calls'[c].pc # "completeWrite") =>
                 /\ calls'[c].pc = "finished"
                 /\ jobs'[c].status = "completed"
            /\ (calls[c].pc = "failReadUser" /\ calls'[c].pc # "failReadUser") =>
                 calls'[c].pc = "failWriteUser"
            /\ (calls[c].pc = "failWriteUser" /\ calls'[c].pc # "failWriteUser") =>
                 /\ calls'[c].pc = "failWriteJob"
                 /\ refunds'[c] = refunds[c] + 1
                 /\ users'[jobs[c].userId].credits
                      = calls[c].credRead + jobs[c].creditsUsed
            /\ (calls[c].pc = "failWriteJob" /\ calls'[c].pc # "failWriteJob") =>
                 /\ calls'[c].pc = "finished"
                 /\ jobs'[c].status = "failed"
                 /\ jobs'[c].error = calls[c].err
            /\ calls[c].pc \in afterPoll =>
                 /\ calls'[c].pc \in afterPoll
                 /\ calls'[c].attempts = calls[c].attempts]_vars

\* C13 witness: the sixtieth poll of a job still processing has timed out
\* and the job is failed and refunded
C13_Witness ==
    \E c \in DOMAIN calls :
        /\ calls[c].attempts = maxAttempts /\ calls[c].pc = "finished"
        /\ calls[c].err = "Job timed out"
        /\ jobs[c].status = "failed" /\ refunds[c] >= 1

\* C14: in every reachable state a job has asset URLs exactly when it is
\* completed: no job is completed with null or empty assetUrls, and no
\* queued, processing or failed job carries asset URLs.
C14_AssetsIffCompleted ==
    \A j \in DOMAIN jobs :
        jobs[j].status # "none" =>
            (jobs[j].assetUrls # <<>> <=> jobs[j].status = "completed")

\* job rows as createJob inserted them under any cost table: tool t, with
\* creditsUsed the cost some tool has
rowsOfAnyCost ==
    {[newJob(t, DEMO_USER_ID) EXCEPT !.creditsUsed = toolCosts[t2]] :
        t \in Tools, t2 \in Tools}

\* C15: creditsUsed is set at creation to the tool's fixed cost (text2image
\* 1, texturing 3, img2video 4, text2mesh 5), no later operation modifies
\* it, and a refund adds exactly the job row's creditsUsed to the balance it
\* read, whatever the cost table says for the job's tool.
C15_CreditsUsedFixed ==
    /\ [](/\ newJob("text2image", DEMO_USER_ID).creditsUsed = 1
          /\ newJob("texturing", DEMO_USER_ID).creditsUsed = 3
          /\ newJob("img2video", DEMO_USER_ID).creditsUsed = 4
          /\ newJob("text2mesh", DEMO_USER_ID).creditsUsed = 5
          /\ \A row \in rowsOfAnyCost, r \in 0..StartCredits :
                refundedCredits(r, row) = r + row.creditsUsed
          /\ \A j \in DOMAIN jobs :
                jobs[j].status # "none" =>
                    jobs[j].creditsUsed = toolCosts[calls[j].tool])
    /\ [][\A j \in DOMAIN jobs :
            /\ jobs[j].status # "none" =>
                  jobs'[j].creditsUsed = jobs[j].creditsUsed
            /\ refunds'[j] # refunds[j] =>
                  \/ /\ calls[j].pc = "failWriteUser"
                     /\ calls'[j].pc = "failWriteJob"
                     /\ users'[jobs[j].userId].credits
                          = calls[j].credRead + jobs[j].creditsUsed
                  \/ \E w \in Hooks :
                        /\ hooks[w].pc = "failWriteUser" /\ hooks[w].job = j
                        /\ hooks'[w].pc = "failWriteJob"
                        /\ users'[jobs[j].userId].credits
                             = hooks[w].credRead + jobs[j].creditsUsed]_vars

\* C15 witness: a text2mesh job, created with creditsUsed 5, has failed and
\* its 5 credits were added back
C15_Witness ==
    \E j \in DOMAIN jobs :
        /\ jobs[j].tool = "text2mesh" /\ jobs[j].creditsUsed = 5
        /\ jobs[j].status = "failed" /\ refunds[j] = 1
        /\ balance = startCredits

\* createJob returns the job to its caller in this step
returnsJob(c) == calls[c].result # "ok" /\ calls'[c].result = "ok"

\* C16: when createJob returns a job, its deduction of exactly the tool's
\* cost has been written and the job is readable as queued or processing;
\* successive successful calls return different jobs and each deducts its
\* own cost: with no refund so far, the balance at the return is the
\* starting balance less the cost of every call made (two text2image calls
\* back-to-back: both succeed, the balance is down by 2, two job ids).
C16_CreateJobReturn ==
    [][\A c \in DOMAIN calls :
          returnsJob(c) =>
              /\ deducted'[c] = toolCosts[calls'[c].tool]
              /\ jobs[c].status = "none"
              /\ jobs'[c].status \in {"queued", "processing"}
              /\ \A d \in DOMAIN calls \ {c} :
                    calls[d].result = "ok" =>
                        jobs[d].status # "none" /\ jobs'[d] = jobs[d]
              /\ (\A j \in DOMAIN jobs : refunds'[j] = 0) =>
                    balance' = startCredits - SumOver(deducted', DOMAIN calls)]_vars

\* C16 witness: two text2image calls, one after the other, have both
\* returned their jobs and the balance is down by 2
C16_Witness ==
    /\ \A c \in DOMAIN calls :
          /\ calls[c].result = "ok" /\ calls[c].tool = "text2image"
          /\ jobs[c].status \in {"queued", "processing"}
    /\ \A j \in DOMAIN jobs : refunds[j] = 0
    /\ balance = startCredits - 2

\* delivery w is received by POST /api/webhooks/vendor in this step
arrives(w) == hooks[w].pc = "idle" /\ hooks'[w].pc # "idle"

\* C17: the webhook receiver maps the provider's job id back to the job. For
\* a processing job whose stored providerJobId is p, a verified webhook
\* carrying p goes on to the reported terminal transition of that job.
C17_WebhookMapsProviderId ==
    [][\A w \in Hooks, c \in DOMAIN calls :
          (/\ arrives(w) /\ hooks'[w].authentic
           /\ jobs[c].status = "processing"
           /\ jobs[c].providerJobId # 0
           /\ hooks'[w].job = jobs[c].providerJobId
           /\ hooks'[w].status \in Terminal)
          => /\ hooks'[w].response # 500
             /\ hooks'[w].pc = IF hooks'[w].status = "completed"
                                  THEN "completeWrite" ELSE "failReadUser"]_vars

\* the terminal provider jobs the providers produce: completed with a result
\* of one or more asset URLs and a meta, or failed with an error text (and,
\* as ProviderJob allows, failed without one)
ProviderOutcomes ==
    {[status |-> "completed", error |-> "",
      result |-> [present |-> TRUE, assetUrls |-> a, meta |-> m]] :
        a \in {<<"sim-asset">>, <<"vendor-asset">>}, m \in {"sim-meta", "vendor-meta"}}
      \cup {[status |-> "failed", error |-> e, result |-> NoResult] :
              e \in {"Generation failed", ""}}

\* poll: providerJob.error || "Provider job failed"
providerError(providerJob) ==
    IF providerJob.error # "" THEN providerJob.error ELSE pollError(providerJob.status)

\* the webhook body that reports provider job o for job jobId
webhookOf(jobId, o) ==
    [jobId |-> jobId, status |-> o.status, result |-> o.result, error |-> o.error]

writeSteps == {"completeWrite", "failWriteUser", "failWriteJob"}

\* a poll of job j, or a write that follows from a poll result, in this step
pollTakesEffect(j) ==
    \/ polled(j)
    \/ /\ calls[j].attempts >= 1
       /\ calls[j].pc \in writeSteps /\ calls'[j].pc # calls[j].pc

\* a write of a webhook for job j in this step
webhookTakesEffect(j) ==
    \E w \in Hooks :
        /\ hooks[w].job = j
        /\ hooks[w].pc \in writeSteps /\ hooks'[w].pc # hooks[w].pc

ProviderKinds == {"SIM", "MESHY", "REPLICATE"}

\* job c was submitted with a vendor configured for its tool and got the
\* simulation provider
fellBack(c) ==
    calls[c].configured \in {"MESHY", "REPLICATE"} /\ calls[c].provider = "SIM"

\* C20: provider fallback. For every tool and every configuration the factory
\* returns a provider; with MESHY or REPLICATE configured and the credential
\* absent (the adapter's constructor would throw) it returns the simulation
\* provider. A job dispatched that way was returned by createJob without
\* error, is found by every poll, and once the simulation has completed it
\* the poller completes the job with the simulation's assets.
C20_ProviderFallback ==
    /\ [](\A e \in Envs :
            /\ \A t \in Tools : getProvider(t, e) \in ProviderKinds
            /\ (e.text2mesh = "MESHY" /\ MeshyProviderThrows(e.MESHY_API_KEY)) =>
                  getProvider("text2mesh", e) = "SIM"
            /\ (e.text2mesh = "REPLICATE"
                  /\ ReplicateProviderThrows(e.REPLICATE_API_TOKEN)) =>
                  getProvider("text2mesh", e) = "SIM"
            /\ getProvider("texturing", e) = "SIM"
            /\ getProvider("img2video", e) = "SIM"
            /\ getProvider("text2image", e) = "SIM")
    /\ [](\A c \in 1..MaxPollCalls :
            fellBack(c) =>
                /\ calls[c].result = "ok"
                /\ statusFound(calls[c].provider)
                /\ calls[c].err # "Polling error")
    /\ [][\A c \in 1..MaxPollCalls :
            (fellBack(c) /\ calls[c].pc = "completeWrite" /\ calls'[c].pc = "finished") =>
                /\ jobs'[c].status = "completed"
                /\ jobs'[c].assetUrls = simResult.assetUrls]_vars
    /\ \A c \in 1..MaxPollCalls :
          (fellBack(c) /\ calls[c].pc = "pollTimer" /\ provJobs[c] = "completed")
             ~> (calls[c].pc = "finished" /\ calls[c].err = "")

\* C20 witness: a text2mesh job with MESHY configured and no key was
\* dispatched to the simulation provider and completed by the poller
C20_Witness ==
    \E c \in DOMAIN calls :
        /\ calls[c].tool = "text2mesh" /\ calls[c].configured = "MESHY"
        /\ calls[c].provider = "SIM" /\ calls[c].result = "ok"
        /\ calls[c].pc = "finished" /\ calls[c].err = ""
        /\ jobs[c].status = "completed" /\ jobs[c].assetUrls = simResult.assetUrls

\* the steps of createJob that come before the deduction
beforeDeduct == {"idle", "rateLimit", "rateReset", "deductRead", "deductWrite"}

\* C21: a createJob call refused with RateLimitExceeded returns on the
\* creation call itself, has deducted nothing and has no job, and the step
\* that refuses it changes no balance and no job: the rate-limit check comes
\* before the deduction.
C21_RateLimitBeforeDeduct ==
    /\ [](\A c \in DOMAIN calls :
            /\ calls[c].result = "RateLimitExceeded" =>
                  /\ calls[c].pc = "returned"
                  /\ jobs[c].status = "none"
                  /\ provJobs[c] = "none"
                  /\ deducted[c] = 0
                  /\ balance = startCredits - SumOver(deducted, DOMAIN calls \ {c})
            /\ calls[c].pc \in beforeDeduct => deducted[c] = 0)
    /\ [][\A c \in DOMAIN calls :
            (calls[c].result # "RateLimitExceeded"
                /\ calls'[c].result = "RateLimitExceeded") =>
                /\ calls[c].pc = "rateLimit"
                /\ UNCHANGED <<users, jobs, provJobs, deducted>>]_vars

\* C21 witness: a sixth heavy call was refused after five had paid, and the
\* balance is the starting balance less the cost of those five
C21_Witness ==
    \E c \in DOMAIN calls :
        /\ calls[c].result = "RateLimitExceeded" /\ calls[c].pc = "returned"
        /\ calls[c].tool = "texturing"
        /\ jobs[c].status = "none"
        /\ balance = startCredits - 5 * toolCosts["texturing"]

\* the heavy jobs created so far
heavyJobsCreated == {c \in DOMAIN calls : heavyCreated(c)}

\* C22: the heavy-job counter is incremented atomically alongside job
\* creation. For any number of concurrent heavy createJob calls of one
\* session, in every interleaving at most 5 heavy jobs are created within one
\* window, and heavyJobsThisHour counts the heavy jobs created since the
\* last reset: a reset sets it to 0, a creation adds 1, nothing else
\* changes it.
C22_HeavyCounterAtomic ==
    /\ [](Cardinality(heavyJobsCreated) <= HeavyLimit)
    /\ [][LET counter == sessions[DEMO_SESSION_ID].heavyJobsThisHour
              counter2 == sessions'[DEMO_SESSION_ID].heavyJobsThisHour IN
          IF \E c \in DOMAIN calls : calls[c].pc = "rateReset" /\ calls'[c].pc # "rateReset"
             THEN counter2 = 0
          ELSE IF heavyJobsCreated' # heavyJobsCreated
             THEN counter2 = counter + 1
          ELSE counter2 = counter]_vars

\* call c takes a step of createJob
createJobStep(c) ==
    /\ calls[c].pc \in beforeDeduct \cup {"insertJob", "sessionInc"}
    /\ calls'[c].pc # calls[c].pc

\* C23: heavy classification. text2mesh, texturing and img2video are heavy
\* and text2image is not; a text2image createJob is never refused with
\* RateLimitExceeded, whatever the session counter is, and none of its steps
\* changes heavyJobsThisHour or lastHeavyJobAt.
C23_HeavyClassification ==
    /\ [](/\ heavyJobs = {"text2mesh", "texturing", "img2video"}
          /\ "text2image" \in Tools \ heavyJobs
          /\ \A c \in DOMAIN calls :
                calls[c].tool = "text2image" => calls[c].result # "RateLimitExceeded")
    /\ [][\A c \in DOMAIN calls :
            (createJobStep(c) /\ calls'[c].tool = "text2image") =>
                /\ sessions' = sessions
                /\ calls'[c].result # "RateLimitExceeded"]_vars

\* C23 witness: with the counter at the ceiling and a heavy call refused, a
\* later text2image call was served and the counter is still at the ceiling
C23_Witness ==
    \E c, d \in DOMAIN calls :
        /\ d < c /\ calls[d].result = "RateLimitExceeded"
        /\ calls[c].tool = "text2image" /\ calls[c].result = "ok"
        /\ calls[c].at = calls[d].at
        /\ sessions[DEMO_SESSION_ID].heavyJobsThisHour = HeavyLimit

\* the request of call c names no tool of the enumeration, or has no prompt
invalidRequest(c) ==
    \/ calls[c].prompt = ""
    \/ calls[c].route = "/api/jobs" /\ calls[c].tool \notin Tools
    \/ calls[c].route = "/api/generate" /\ calls[c].tool \in RequestedJobTypes \ {"text-to-image"}

\* C24: validation. Through POST /api/jobs and through the legacy POST
\* /api/generate, a request whose tool is outside the enumeration or whose
\* prompt is missing or empty is answered 400: it creates no job, deducts no
\* credit and touches no session counter.
C24_Validation ==
    /\ [](\A c \in DOMAIN calls :
            (calls[c].pc # "idle" /\ invalidRequest(c)) =>
                /\ calls[c].pc = "returned"
                /\ calls[c].result = "400"
                /\ jobs[c].status = "none"
                /\ deducted[c] = 0)
    /\ [][\A c \in DOMAIN calls :
            (calls[c].pc = "idle" /\ calls'[c].pc # "idle" /\ invalidRequest(c)') =>
                UNCHANGED <<users, jobs, sessions>>]_vars

\* C25: a user is created lazily on first reference. A createJob call that
\* names a user not yet in the users table creates the user with the default
\* balance and is not refused with InsufficientCredits for the missing row.
C25_LazyUser ==
    [][\A c \in DOMAIN calls :
          (calls[c].pc = "idle" /\ calls'[c].pc # "idle"
              /\ ~users[DEMO_USER_ID].exists) =>
              /\ users'[DEMO_USER_ID].exists
              /\ users'[DEMO_USER_ID].credits = LazyCredits
              /\ calls'[c].result # "InsufficientCredits"]_vars

\* C26: getJobStatus on a provider job id the provider instance never issued
\* raises "not found" and never answers with a ProviderJob, for the simulation,
\* Meshy and Replicate providers; a poll that asks for such an id fails the
\* job with "Polling error" instead of reading a status.
C26_UnknownIdRaises ==
    /\ [](\A p \in ProviderKinds : \A id \in ProviderJobIds \cup {Null} :
            id \notin instanceJobs(p) => getJobStatus(p, id) = JobNotFound)
    /\ [][\A c \in 1..MaxPollCalls :
            (polled(c) /\ jobs[c].providerJobId \notin instanceJobs(calls[c].provider)) =>
                /\ calls'[c].pc = "failReadUser"
                /\ calls'[c].err = "Polling error"]_vars

C26_Witness ==
    \E c \in DOMAIN calls :
        /\ calls[c].provider \in {"MESHY", "REPLICATE"}
        /\ calls[c].err = "Polling error"
        /\ jobs[c].providerJobId \in ProviderJobIds

\* the columns of a job row a transition writes
jobColumns(row) == <<row.status, row.assetUrls, row.meta, row.creditsUsed>>

\* C27: cross-user and cross-job independence. A step of createJob, of the
\* completion, of the failure or of the refund of job c changes no other
\* user's balance than that of c's own userId and no other job's status,
\* assetUrls, meta or creditsUsed; a step of the provider changes neither
\* table; a refund is credited to the failed job's own userId.
C27_Independence ==
    /\ [](\A c \in DOMAIN calls :
            jobs[c].status # "none" => jobs[c].userId = calls[c].userId)
    /\ [][/\ \A c \in DOMAIN calls : calls'[c] # calls[c] =>
                /\ \A u \in ServiceUsers \ {calls'[c].userId} : users'[u] = users[u]
                /\ \A j \in DOMAIN jobs \ {c} : jobColumns(jobs'[j]) = jobColumns(jobs[j])
                /\ refunds'[c] # refunds[c] =>
                      /\ users'[jobs[c].userId].credits
                            = calls[c].credRead + jobs[c].creditsUsed
                      /\ jobs[c].userId = calls[c].userId
          /\ calls' = calls => (users' = users /\ jobs' = jobs)]_vars

C27_Witness ==
    \E c, d \in DOMAIN calls :
        /\ jobs[c].userId = OTHER_USER_ID /\ jobs[c].status = "failed"
        /\ refunds[c] = 1
        /\ jobs[d].userId = DEMO_USER_ID /\ jobs[d].status = "completed"
        /\ users[DEMO_USER_ID].credits = StartCredits - toolCosts["text2image"]
        /\ users[OTHER_USER_ID].credits = StartCredits

\* C28: after submit returns, dispatch stores the providerJobId and then does
\* exactly one of two things: when the provider job's status is completed it
\* goes to completeJob, which sets the job completed, and no poller is ever
\* started for the job; otherwise it starts the job's one poller, at attempt 0.
\* A poller is started by this step and by no other.
C28_DispatchBranch ==
    /\ [][\A c \in 1..MaxPollCalls :
            (calls[c].pc = "storeProviderJobId" /\ calls'[c] # calls[c]) =>
                /\ jobs'[c].providerJobId = generateJobId(c)
                /\ calls'[c].attempts = 0
                /\ provJobs[c] = "completed" => calls'[c].pc = "completeWrite"
                /\ provJobs[c] # "completed" => calls'[c].pc = "pollTimer"]_vars
    /\ [][\A c \in 1..MaxPollCalls :
            /\ (calls'[c].pc = "pollTimer" /\ calls[c].pc # "pollTimer") =>
                  calls[c].pc = "storeProviderJobId"
            /\ calls[c].pc \in afterPoll => calls'[c].pc \in afterPoll
            /\ (calls[c].pc = "completeWrite" /\ calls'[c] # calls[c]) =>
                  jobs'[c].status = "completed"]_vars

C28_Witness ==
    \E c \in DOMAIN calls :
        /\ calls[c].pc = "finished" /\ calls[c].attempts = 0
        /\ calls[c].provider = "SIM"
        /\ jobs[c].status = "completed" /\ jobs[c].providerJobId = generateJobId(c)
        /\ \A w \in Hooks : hooks[w].pc = "idle"

\* the catalog sets one of whose keywords occurs in the prompt, whatever the
\* case of the prompt's letters
setsOccurring(prompt) ==
    {i \in DOMAIN PROMPT_TO_MODEL :
        \E k \in PROMPT_TO_MODEL[i].keywords :
            \E a \in 1..Len(prompt), b \in 1..Len(prompt) :
                toLowerCase(SubSeq(prompt, a, b)) = k}

\* C29: simulation catalog. The model of a text2mesh simulation job is the
\* URL of the first set, in catalog order, one of whose keywords occurs
\* case-insensitively in the prompt; it is the default asset if and only if
\* no keyword of any set occurs.
C29_CatalogFirstMatch ==
    \A c \in DOMAIN calls :
        (calls[c].tool = "text2mesh" /\ calls[c].pc = "finished"
            /\ provJobs[c] = "completed" /\ calls[c].result # <<"local-path">>) =>
            LET hits == setsOccurring(calls[c].prompt)
                url == calls[c].result[1] IN
            /\ Len(calls[c].result) = 1
            /\ hits = {} <=> url = PROMPT_TO_MODEL_default
            /\ hits # {} =>
                  url = PROMPT_TO_MODEL[CHOOSE i \in hits : \A j \in hits : i <= j].modelUrl

C29_Witness ==
    \E c \in DOMAIN calls :
        /\ calls[c].tool = "text2mesh" /\ calls[c].pc = "finished"
        /\ calls[c].prompt = <<"f", "l", "o", "w", "e", "r", "p", "o", "t">>
        /\ provJobs[c] = "completed"
        /\ calls[c].result = <<PROMPT_TO_MODEL[1].modelUrl>>

\* C30: every simulation submit returns at once a provider job in processing
\* that getJobStatus finds; the job takes a terminal status once, no sooner
\* than its tool's delay after the submit, and keeps it; a texturing, video
\* or mesh job whose callback caught no exception ends completed with
\* assetUrls that are not empty.
C30_SimLifecycle ==
    /\ [](\A c \in 1..MaxSimCalls :
            /\ calls[c].pc # "idle" =>
                  /\ getJobStatus("SIM", generateJobId(c)) = provJobs[c]
                  /\ provJobs[c] \in {"processing"} \cup Terminal
            /\ provJobs[c] \in Terminal =>
                  now >= calls[c].at + simDelay[calls[c].tool]
            /\ (calls[c].pc \in {"simWebhook", "finished"}
                   /\ calls[c].tool \in {"texturing", "img2video", "text2mesh"}
                   /\ calls[c].err = "") =>
                  (provJobs[c] = "completed" /\ Len(calls[c].result) > 0))
    /\ [][\A c \in 1..MaxSimCalls :
            /\ (calls[c].pc = "idle" /\ calls'[c].pc # "idle") =>
                  provJobs'[c] = "processing"
            /\ provJobs[c] \in Terminal => provJobs'[c] = provJobs[c]
            /\ provJobs'[c] # provJobs[c] =>
                  \/ provJobs[c] = "none" /\ provJobs'[c] = "processing"
                  \/ provJobs[c] = "processing" /\ provJobs'[c] \in Terminal]_vars
    /\ \A c \in 1..MaxSimCalls :
          (provJobs[c] = "processing"
              /\ calls[c].at + simDelay[calls[c].tool] <= MaxSimTime)
            ~> (provJobs[c] \in Terminal)

C30_Witness ==
    \E c \in DOMAIN calls :
        /\ calls[c].tool = "texturing" /\ calls[c].pc = "finished"
        /\ provJobs[c] = "completed" /\ Len(calls[c].result) = 3
        /\ now = calls[c].at + simDelay["texturing"]
        /\ getJobStatus("SIM", generateJobId(c)) = "completed"

\* C31: the poller queries the provider state that accepted the submit. For
\* every dispatched job, under every provider configuration, each getJobStatus
\* the poller makes for the stored provider job id finds the job: no poll
\* ends in "job not found".
C31_PollerFindsJob ==
    [][\A c \in 1..MaxPollCalls :
          polled(c) =>
              /\ jobs[c].providerJobId \in instanceJobs(calls[c].provider)
              /\ getJobStatus(calls[c].provider, jobs[c].providerJobId) # JobNotFound
              /\ calls'[c].err # "Polling error"]_vars

\* the provider's submit returned a ProviderJob that had already failed
returnedFailed(c) ==
    calls[c].provider \in {"MESHY", "REPLICATE"} /\ calls[c].returned = "failed"

noWebhook == \A w \in Hooks : hooks[w].pc = "idle"

\* C32: when the provider's submit returns a ProviderJob that is already
\* failed (a vendor adapter whose create call failed, so that the vendor has
\* no task and sends no callback), the job ends failed with its creditsUsed
\* refunded exactly once, and is never completed.
C32_FailedSubmit ==
    /\ [](\A c \in 1..MaxPollCalls : (returnedFailed(c) /\ noWebhook) =>
            /\ jobs[c].status # "completed"
            /\ refunds[c] <= 1
            /\ calls[c].pc = "finished" =>
                  /\ jobs[c].status = "failed"
                  /\ refunds[c] = 1)
    /\ [][\A c \in 1..MaxPollCalls :
            (returnedFailed(c) /\ noWebhook /\ refunds'[c] # refunds[c]) =>
                users'[DEMO_USER_ID].credits = balance + jobs[c].creditsUsed]_vars
    /\ \A c \in 1..MaxPollCalls :
          returnedFailed(c) ~>
              (~noWebhook \/ (calls[c].pc = "finished" /\ jobs[c].status = "failed"
                                 /\ refunds[c] = 1))

C32_Witness ==
    \E c \in DOMAIN calls :
        /\ returnedFailed(c) /\ noWebhook
        /\ calls[c].pc = "finished" /\ jobs[c].status = "failed"
        /\ refunds[c] = 1 /\ balance = startCredits

\* no row of the jobs table has this id
matchesNoJob(id) == \A j \in DOMAIN jobs : j = id => jobs[j].status = "none"

\* C33: a verified webhook whose job id matches no job is reported as an
\* error (the route answers 500) and changes no job and no credit balance,
\* in the step that receives it and afterwards.
C33_WebhookUnknownJob ==
    /\ [][\A w \in Hooks :
            (arrives(w) /\ hooks'[w].authentic /\ hooks'[w].job # 0
                /\ matchesNoJob(hooks'[w].job)) =>
                /\ hooks'[w].pc = "done"
                /\ hooks'[w].response = 500
                /\ UNCHANGED <<users, jobs, sessions, refunds>>]_vars
    /\ [][\A w \in Hooks :
            (hooks[w].pc = "done" /\ hooks[w].response = 500) =>
                hooks'[w] = hooks[w]]_vars

C33_Witness ==
    \E w \in Hooks :
        /\ hooks[w].authentic /\ hooks[w].pc = "done" /\ hooks[w].response = 500
        /\ hooks[w].job \in JobIds /\ jobs[hooks[w].job].status = "none"
        /\ \E c \in DOMAIN calls : jobs[c].status = "processing"

\* C34: a verified webhook for an existing job with status completed but no
\* result, or with a status that is neither completed nor failed, changes no
\* job field and no balance and is answered as processed; a delivery goes on
\* to a write only as completed with a result or as failed.
C34_WebhookNoOp ==
    /\ [][\A w \in Hooks, b \in Payloads :
            (/\ WebhookArrives(w, b, signatureOf(WEBHOOK_SECRET, b))
             /\ ~matchesNoJob(b.jobId)
             /\ \/ b.status = "completed" /\ ~b.result.present
                \/ b.status \notin Terminal) =>
                /\ hooks'[w].pc = "done"
                /\ hooks'[w].response = 200
                /\ UNCHANGED <<users, jobs, sessions, refunds>>]_vars
    /\ [][\A w \in Hooks, b \in Payloads :
            (/\ WebhookArrives(w, b, signatureOf(WEBHOOK_SECRET, b))
             /\ hooks'[w].pc # "done") =>
                \/ b.status = "completed" /\ b.result.present
                \/ b.status = "failed"]_vars
    /\ [][\A w \in Hooks : hooks[w].pc = "done" => hooks'[w] = hooks[w]]_vars

C34_Witness ==
    \E w \in Hooks :
        /\ hooks[w].authentic /\ hooks[w].pc = "done" /\ hooks[w].response = 200
        /\ hooks[w].status = "completed" /\ hooks[w].assetUrls = <<>>
        /\ hooks[w].job \in JobIds /\ jobs[hooks[w].job].status = "processing"

\* createJob call c was rejected
rejected(c) == calls[c].result \in {"InsufficientCredits", "RateLimitExceeded"}

\* C35: a createJob call that is rejected (InsufficientCredits at the
\* read-check or at the re-check, RateLimitExceeded) leaves the session's
\* rate-limit record as it was, also with another createJob of the same user
\* under way. The session has no row at start-up; as long as every heavy call
\* that has begun has been rejected, it has none: no row is created, nothing
\* is reset and nothing is stamped by calls that create no job.
C35_RejectedLeavesSession ==
    (\A c \in DOMAIN calls :
        (calls[c].pc # "idle" /\ calls[c].tool \in heavyJobs) => rejected(c))
      => \A s \in Sessions :
            /\ ~sessions[s].exists
            /\ sessions[s].heavyJobsThisHour = 0
            /\ sessions[s].lastHeavyJobAt = Null

\* C36: ReplicateProvider.handleWebhook turns a vendor callback into a
\* terminal webhook only for a terminal vendor status: succeeded gives
\* completed, failed or canceled gives failed, and a callback with a
\* non-terminal status (starting, processing) gives no terminal webhook,
\* no job failure and no refund.
C36_ReplicateCallback ==
    [][\A w \in Hooks, p \in ReplicatePayloads :
          (ReplicateHandleWebhook(w, p) /\ p.id # 0 /\ p.status # "") =>
              /\ p.status = "succeeded" => hooks'[w].status = "completed"
              /\ p.status \in {"failed", "canceled"} => hooks'[w].status = "failed"
              /\ p.status \in {"starting", "processing"} =>
                    /\ hooks'[w].status \notin Terminal
                    /\ hooks'[w].pc \notin {"failReadUser", "failWriteUser", "failWriteJob"}
                    /\ UNCHANGED <<users, jobs, refunds>>]_vars

\* C37: admin credit grant. A request with a wrong password (401) or a
\* missing or non-positive amount (400) leaves the balance unchanged; with
\* the correct password and amount n > 0 the grant's write leaves the balance
\* exactly n above what it was, also when a createJob deduction of the same
\* user has interleaved (no lost update), and the newBalance reported with
\* it is the stored balance.
C37_AdminGrant ==
    /\ [][\A c \in DOMAIN calls :
            (calls[c].pc = "idle" /\ calls'[c].route = "/api/admin/credits") =>
                /\ calls'[c].pc = "returned" => calls'[c].result \in {"401", "400"}
                /\ UNCHANGED users]_vars
    /\ [][\A c \in DOMAIN calls :
            (calls[c].pc = "adminWrite" /\ calls'[c].pc = "returned") =>
                /\ calls[c].amount > 0
                /\ users'[DEMO_USER_ID].credits
                      = users[DEMO_USER_ID].credits + calls[c].amount
                /\ calls[c].credRead + calls[c].amount = users'[DEMO_USER_ID].credits]_vars

\* C38: legacy POST /api/generate keeps the consumed credit only when an asset
\* is created: a request answered with anything but success leaves the
\* balance as it was before it, and one without prompt or jobType is answered
\* before a credit is consumed.  Hence, once every request has been answered,
\* the balance is the starting one less one credit per created asset, and the
\* step that rejects a request for a missing field writes no balance.
assetsCreated == {c \in DOMAIN calls : calls[c].result = "success"}

C38_LegacyKeepsCreditOnSuccessOnly ==
    /\ (\A c \in DOMAIN calls : calls[c].pc \in {"idle", "returned"})
          => users[DEMO_USER_ID].credits = startCredits - Cardinality(assetsCreated)
    /\ \A c \in DOMAIN calls :
          calls[c].pc = "returned" /\ (calls[c].prompt = "" \/ calls[c].tool = "")
             => calls[c].credRead = 0 /\ calls[c].result = "400"

\* C39: MemStorage.ensureUser is idempotent per userId: once calls of
\* getUserCredits, ensureUser and deductUserCredits for a userId have returned
\* and none is under way, the store holds exactly one user record of that
\* userId and getUser(userId) returns it; in particular a read of the credits
\* adds no second record.
recordsOf(userId) == {k \in DOMAIN users : users[k].username = userId}

C39_EnsureUserIdempotent ==
    (\A c \in DOMAIN calls : calls[c].pc \in {"idle", "returned"})
       => \A u \in MemUserIds :
             (\E c \in DOMAIN calls : calls[c].pc = "returned" /\ calls[c].userId = u)
                => /\ Cardinality(recordsOf(u)) = 1
                   /\ getUser(u) # NoUser
                   /\ \A k \in recordsOf(u) : users[k] = getUser(u)

\* C40: once a job is completed or failed, by a webhook or by the poller, the
\* poller makes no further getJobStatus call for it and applies no further
\* transition: no step taken while the job is completed or failed is a poll
\* of it or a write that follows from one of its poll results.
C40_PollerStopsAtTerminal ==
    [][\A j \in DOMAIN jobs :
          jobs[j].status \in Terminal => ~pollTakesEffect(j)]_vars
====
